---- MODULE Spec2Model ----
(***************************************************************************)
(* AgroSense (milestone-four): the mandi-price SQL pass-through            *)
(* (db_util.ts executeSql, getMandiPrice tool) and the Geo-Polygon Area &  *)
(* Regional-Estimate endpoints (/api/crop-data, /api/ndvi over the GEE     *)
(* client).                                                                *)
(*                                                                         *)
(* Text is a sequence of one-character strings; an error message is a      *)
(* sequence of its literal parts, so prefixing is concatenation.           *)
(***************************************************************************)
EXTENDS Integers, Sequences, FiniteSets, TLC

VARIABLES
    calls,        \* per getMandiPrice invocation: position, query, handle, outcome
    openHandles,  \* database handles opened by sqlite.open and not yet closed
    nextHandle,   \* next fresh handle identity
    dbLog,        \* every sqlite.open / db.all / db.close performed
    env,          \* process.env GEE_* credentials
    authClient,   \* module-level cached GoogleAuth client (null / set)
    http,         \* the last HTTP request handled and its response
    toolCall,     \* the last getCropData / getNDVI tool call and its result
    shown,        \* tools whose show_map action was issued in the conversation
    eeInitialized, \* module-level flag of the Earth Engine client
    eeCalls,      \* per getNdvi invocation: position and result
    eeRuns,       \* how often the authenticate-and-initialize sequence ran
    setup         \* the setupDatabase script: stream, inserts, transaction

sqlVars  == <<calls, openHandles, nextHandle, dbLog>>
httpVars == <<env, authClient, http>>
vars     == <<calls, openHandles, nextHandle, dbLog, env, authClient, http,
              toolCall, shown, eeInitialized, eeCalls, eeRuns, setup>>

----------------------------------------------------------------------------
(* Bounds *)

NCalls == 2          \* concurrent getMandiPrice / executeSql invocations
MaxPoints == 3       \* longest enumerated free-form polygon in a POST body

----------------------------------------------------------------------------
(* Text helpers *)

\* String.prototype.toUpperCase on one character of the modelled alphabet
UpperChar(c) ==
    CASE c = "s" -> "S"
      [] c = "e" -> "E"
      [] c = "l" -> "L"
      [] c = "c" -> "C"
      [] c = "t" -> "T"
      [] c = "d" -> "D"
      [] OTHER   -> c

toUpperCase(s) == [i \in 1..Len(s) |-> UpperChar(s[i])]

startsWith(s, prefix) ==
    /\ Len(s) >= Len(prefix)
    /\ SubSeq(s, 1, Len(prefix)) = prefix

\* s occurs in t as a contiguous run
Includes(t, s) ==
    \E i \in 0..(Len(t) - Len(s)) : SubSeq(t, i + 1, i + Len(s)) = s

RECURSIVE trimStart(_)
trimStart(s) ==
    IF s # <<>> /\ Head(s) \in {" ", "\n"} THEN trimStart(Tail(s)) ELSE s

SELECT == <<"S", "E", "L", "E", "C", "T">>

\* query strings the LLM may hand to the tool
Leads == { <<>>, <<" ">> }
Words == { SELECT,
           <<"s", "e", "l", "e", "c", "t">>,
           <<"S", "E", "L", "E", "C">>,
           <<"D", "E", "L", "E", "T", "E">>,
           <<>> }
Tails == { <<>>, <<" ", "*">> }
Queries == { l \o w \o t : l \in Leads, w \in Words, t \in Tails }

----------------------------------------------------------------------------
(* db_util.ts: executeSql, and the getMandiPrice tool around it *)

Procs == 1..NCalls

MAX_ROWS == 10       \* results.slice(0, 10)
RowCounts == {0, 1, MAX_ROWS, MAX_ROWS + 1}

Rows(n) == [i \in 1..n |-> i]

NoHandle == 0

OnlySelectMsg == <<"Only SELECT queries are allowed for security.">>
NoResultsMsg ==
    <<"The SQL query returned no results. Try modifying the query to be less restrictive.">>
SqlFailedPrefix == <<"SQL execution failed. Check the generated SQL syntax: ">>

NoOutcome == [kind |-> "none", rows |-> <<>>, error |-> <<>>]
Returned(rows) == [kind |-> "return", rows |-> rows, error |-> <<>>]
Threw(msg) == [kind |-> "throw", rows |-> <<>>, error |-> msg]

NoResult == [kind |-> "none", success |-> FALSE, query |-> <<>>, data |-> <<>>,
             message |-> <<>>, error |-> <<>>]

IdleCall == [pc |-> "idle", query |-> <<>>, handle |-> NoHandle,
             pending |-> NoOutcome, exec |-> NoOutcome, result |-> NoResult]

\* db_util.ts:32  the guard of executeSql
RejectsQuery_Trimmed(sqlQuery) ==
    ~startsWith(toUpperCase(trimStart(sqlQuery)), SELECT)
RejectsQuery(sqlQuery) == ~startsWith(toUpperCase(sqlQuery), SELECT)

\* get-crop-data.ts:123-144  what the tool returns for an executeSql outcome
ToolResult_NoSlice(generatedSql, outcome) ==
    IF outcome.kind = "throw"
    THEN [NoResult EXCEPT !.kind = "returned",
                          !.error = SqlFailedPrefix \o generatedSql]
    ELSE IF Len(outcome.rows) = 0
    THEN [NoResult EXCEPT !.kind = "returned", !.message = NoResultsMsg]
    ELSE [NoResult EXCEPT !.kind = "returned", !.success = TRUE,
                          !.query = generatedSql, !.data = outcome.rows]
ToolResult_EmptySuccess(generatedSql, outcome) ==
    IF outcome.kind = "throw"
    THEN [NoResult EXCEPT !.kind = "returned",
                          !.error = SqlFailedPrefix \o generatedSql]
    ELSE [NoResult EXCEPT !.kind = "returned", !.success = TRUE,
                          !.query = generatedSql,
                          !.data = SubSeq(outcome.rows, 1,
                                     IF Len(outcome.rows) < MAX_ROWS
                                     THEN Len(outcome.rows) ELSE MAX_ROWS)]
ToolResult_Rethrow(generatedSql, outcome) ==
    IF outcome.kind = "throw"
    THEN [NoResult EXCEPT !.kind = "thrown", !.error = outcome.error]
    ELSE IF Len(outcome.rows) = 0
    THEN [NoResult EXCEPT !.kind = "returned", !.message = NoResultsMsg]
    ELSE [NoResult EXCEPT !.kind = "returned", !.success = TRUE,
                          !.query = generatedSql,
                          !.data = SubSeq(outcome.rows, 1,
                                     IF Len(outcome.rows) < MAX_ROWS
                                     THEN Len(outcome.rows) ELSE MAX_ROWS)]
ToolResult(generatedSql, outcome) ==
    IF outcome.kind = "throw"
    THEN [NoResult EXCEPT !.kind = "returned",
                          !.error = SqlFailedPrefix \o generatedSql]
    ELSE IF Len(outcome.rows) = 0
    THEN [NoResult EXCEPT !.kind = "returned", !.message = NoResultsMsg]
    ELSE [NoResult EXCEPT !.kind = "returned", !.success = TRUE,
                          !.query = generatedSql,
                          !.data = SubSeq(outcome.rows, 1,
                                     IF Len(outcome.rows) < MAX_ROWS
                                     THEN Len(outcome.rows) ELSE MAX_ROWS)]

\* executeSql has settled with `outcome`; the awaiting tool builds its result
Settle(call, outcome) ==
    [call EXCEPT !.pc = "done", !.exec = outcome, !.pending = NoOutcome,
                 !.result = ToolResult(call.query, outcome)]

\* getMandiPrice.execute is invoked; executeSql runs up to its first await
\* (the guard, then the call of sqlite.open)
Invoke(p, q) ==
    /\ calls[p].pc = "idle"
    /\ IF RejectsQuery(q)
       THEN calls' = [calls EXCEPT ![p] = Settle([@ EXCEPT !.query = q],
                                                 Threw(OnlySelectMsg))]
       ELSE calls' = [calls EXCEPT ![p] = [@ EXCEPT !.pc = "opening", !.query = q]]
    /\ UNCHANGED <<openHandles, nextHandle, dbLog>>
    /\ UNCHANGED <<httpVars, toolCall, shown, eeInitialized, eeCalls, eeRuns,
                   setup>>

\* db_util.ts:41-46  sqlite.open resolves with a fresh handle
OpenOk(p) ==
    /\ calls[p].pc = "opening"
    /\ calls' = [calls EXCEPT ![p] = [@ EXCEPT !.pc = "querying",
                                                !.handle = nextHandle]]
    /\ openHandles' = openHandles \cup {nextHandle}
    /\ nextHandle' = nextHandle + 1
    /\ dbLog' = dbLog \cup {[op |-> "open", handle |-> nextHandle,
                               by |-> p, sql |-> <<>>]}
    /\ UNCHANGED <<httpVars, toolCall, shown, eeInitialized, eeCalls, eeRuns,
                   setup>>

\* sqlite.open rejects (file missing, not a database): nothing was opened
OpenFail(p) ==
    /\ calls[p].pc = "opening"
    /\ calls' = [calls EXCEPT ![p] = Settle(@, Threw(<<"SQLITE_CANTOPEN">>))]
    /\ UNCHANGED <<openHandles, nextHandle, dbLog>>
    /\ UNCHANGED <<httpVars, toolCall, shown, eeInitialized, eeCalls, eeRuns,
                   setup>>

\* db_util.ts:49-53  db.all resolves with n rows; control enters finally
QueryOk(p, n) ==
    /\ calls[p].pc = "querying"
    /\ calls' = [calls EXCEPT ![p] = [@ EXCEPT !.pc = "closing",
                                                !.pending = Returned(Rows(n))]]
    /\ dbLog' = dbLog \cup {[op |-> "all", handle |-> calls[p].handle,
                             by |-> p, sql |-> calls[p].query]}
    /\ UNCHANGED <<openHandles, nextHandle>>
    /\ UNCHANGED <<httpVars, toolCall, shown, eeInitialized, eeCalls, eeRuns,
                   setup>>

\* db.all rejects (SQL error); control enters finally with the exception pending
QueryFail(p) ==
    /\ calls[p].pc = "querying"
    /\ calls' = [calls EXCEPT ![p] = [@ EXCEPT !.pc = "closing",
                                                !.pending = Threw(<<"SQLITE_ERROR">>)]]
    /\ dbLog' = dbLog \cup {[op |-> "all", handle |-> calls[p].handle,
                             by |-> p, sql |-> calls[p].query]}
    /\ UNCHANGED <<openHandles, nextHandle>>
    /\ UNCHANGED <<httpVars, toolCall, shown, eeInitialized, eeCalls, eeRuns,
                   setup>>

\* db_util.ts:54-56  finally { await db.close() }, then the pending outcome
CloseHandles_Leak(p) == openHandles
CloseHandles(p) == openHandles \ {calls[p].handle}

Close(p) ==
    /\ calls[p].pc = "closing"
    /\ openHandles' = CloseHandles(p)
    /\ dbLog' = dbLog \cup {[op |-> "close", handle |-> calls[p].handle,
                             by |-> p, sql |-> <<>>]}
    /\ calls' = [calls EXCEPT ![p] = Settle(@, calls[p].pending)]
    /\ UNCHANGED nextHandle
    /\ UNCHANGED <<httpVars, toolCall, shown, eeInitialized, eeCalls, eeRuns,
                   setup>>

InitSql ==
    /\ calls = [p \in Procs |-> IdleCall]
    /\ openHandles = {}
    /\ nextHandle = 1
    /\ dbLog = {}

----------------------------------------------------------------------------
(* Numbers.  Coordinates are integers in hundredths of a degree.  A share   *)
(* or an index value is an exact decimal  m * 10^e * 111320^k  kept         *)
(* normalised (m has no trailing zero); k counts the factors of the         *)
(* degrees-to-meters scale, whose square exceeds the integers of the model  *)
(* checker.  An area is the exact product  shoelace * coef  of the absolute *)
(* shoelace sum (an integer, in 1e-4 square degrees) and a decimal          *)
(* coefficient that collects every factor the code applies to it.  A        *)
(* centroid is the exact quotient n / d in hundredths of a degree.          *)

Deg(whole, hundredths) == whole * 100 + hundredths

Abs(i) == IF i < 0 THEN -i ELSE i

RECURSIVE Pow10(_)
Pow10(n) == IF n <= 0 THEN 1 ELSE 10 * Pow10(n - 1)

RECURSIVE Norm(_)
Norm(x) ==
    IF x.m = 0 THEN [x EXCEPT !.e = 0]
    ELSE IF x.m % 10 = 0 THEN Norm([x EXCEPT !.m = @ \div 10, !.e = @ + 1])
    ELSE x

Dec(m, e) == Norm([m |-> m, e |-> e, k |-> 0])
DecAbs(x) == [x EXCEPT !.m = Abs(@)]
DecHalf(x) == Norm([x EXCEPT !.m = @ * 5, !.e = @ - 1])
DecMul(x, y) == Norm([m |-> x.m * y.m, e |-> x.e + y.e, k |-> x.k + y.k])
DecDivPow10(x, p) == Norm([x EXCEPT !.e = @ - p])
\* x * 111320
DecTimesMetersPerDegree(x) == [x EXCEPT !.k = @ + 1]

\* the common exponent of x and y; zero has none of its own
MinE(x, y) ==
    IF x.m = 0 THEN y.e
    ELSE IF y.m = 0 THEN x.e
    ELSE IF x.e < y.e THEN x.e ELSE y.e
\* mantissa of x written at exponent e (e <= x.e when x is not zero)
MantissaAt(x, e) == IF x.m = 0 THEN 0 ELSE x.m * Pow10(x.e - e)
DecAdd(x, y) ==
    Norm([m |-> MantissaAt(x, MinE(x, y)) + MantissaAt(y, MinE(x, y)),
          e |-> MinE(x, y), k |-> x.k])
DecSub(x, y) == DecAdd(x, [y EXCEPT !.m = -@])
DecLeq(x, y) == MantissaAt(x, MinE(x, y)) <= MantissaAt(y, MinE(x, y))

\* areas: shoelace * coef
AreaTimes(a, x) == [a EXCEPT !.coef = DecMul(@, x)]
AreaDivPow10(a, p) == [a EXCEPT !.coef = DecDivPow10(@, p)]
AreaIsZero(a) == a.shoelace = 0 \/ a.coef.m = 0
\* equality of two areas derived from the same shoelace sum
AreaEq(a, b) ==
    /\ a.shoelace = b.shoelace
    /\ (AreaIsZero(a) /\ AreaIsZero(b)) \/ a.coef = b.coef

RECURSIVE SumInts(_, _)
SumInts(f, n) == IF n = 0 THEN 0 ELSE f[n] + SumInts(f, n - 1)

\* quotient n / d compared with a whole number of degrees
QuotGt(q, deg) == q.n > Deg(deg, 0) * q.d
QuotLt(q, deg) == q.n < Deg(deg, 0) * q.d

----------------------------------------------------------------------------
(* Request bodies *)

\* INDIA_BOUNDS of both route files, in hundredths of a degree
INDIA_BOUNDS == [minLat |-> Deg(6, 50), maxLat |-> Deg(35, 50),
                 minLon |-> Deg(68, 0), maxLon |-> Deg(97, 50)]

\* free-form points: the two corners of the box, one point just north of it,
\* one just west of it
FreePoints == { <<Deg(6, 50), Deg(68, 0)>>, <<Deg(35, 50), Deg(97, 50)>>,
                <<Deg(35, 51), Deg(80, 0)>>, <<Deg(20, 0), Deg(67, 99)>> }

FreePolygons == UNION { [1..n -> FreePoints] : n \in 0..MaxPoints }

\* the 2 x 2 degree square whose vertex mean is (lat, lng)
SquareAround(lat, lng) ==
    << <<lat - Deg(1, 0), lng - Deg(1, 0)>>, <<lat + Deg(1, 0), lng - Deg(1, 0)>>,
       <<lat + Deg(1, 0), lng + Deg(1, 0)>>, <<lat - Deg(1, 0), lng + Deg(1, 0)>> >>

CenterLats == { Deg(19, 0), Deg(19, 99), Deg(20, 0), Deg(24, 0),
                Deg(28, 0), Deg(28, 1), Deg(30, 0) }
CenterLngs == { Deg(74, 0), Deg(75, 0), Deg(75, 1), Deg(78, 0), Deg(78, 1),
                Deg(80, 0), Deg(80, 1) }

\* the example polygon of the Delhi area
DelhiPolygon == << <<Deg(28, 60), Deg(77, 20)>>, <<Deg(28, 70), Deg(77, 20)>>,
                   <<Deg(28, 70), Deg(77, 30)>>, <<Deg(28, 60), Deg(77, 30)>> >>

Polygons ==
    FreePolygons
      \cup { SquareAround(lat, lng) : lat \in CenterLats, lng \in CenterLngs }
      \cup { DelhiPolygon }

\* the value of body.polygon: absent, null, a non-array (a string) or an array
PolygonValues ==
    { [type |-> t, points |-> <<>>] : t \in {"undefined", "null", "string"} }
      \cup { [type |-> "array", points |-> pts] : pts \in Polygons }

\* request.json() either throws or yields an object
Bodies ==
    { [parsed |-> FALSE, polygon |-> [type |-> "undefined", points |-> <<>>]] }
      \cup { [parsed |-> TRUE, polygon |-> pv] : pv \in PolygonValues }

CredValues == { "unset", "set" }
Envs == [ GEE_SERVICE_ACCOUNT_EMAIL : CredValues, GEE_PRIVATE_KEY : CredValues,
          GEE_PROJECT_ID : CredValues ]

\* what Google's token endpoint does with the service-account credentials
AuthOutcomes == { "token", "rejected", "no_token" }

----------------------------------------------------------------------------
(* lib/gee/client.ts *)

Regions == { "north", "south", "east", "west", "central" }

GeeNotConfiguredEnvMsg ==
    <<"GEE credentials not configured. Please set GEE_SERVICE_ACCOUNT_EMAIL, GEE_PRIVATE_KEY, and GEE_PROJECT_ID in .env.local">>
GeeNotConfiguredAuthMsg ==
    <<"GEE credentials not configured. Please set GEE_SERVICE_ACCOUNT_EMAIL, GEE_PRIVATE_KEY, and GEE_PROJECT_ID environment variables.">>
GeeErrorPrefix == <<"Google Earth Engine Error: ">>
NoTokenMsg == <<"Failed to get access token for Earth Engine">>
TooFewPointsMsg == <<"Polygon must have at least 3 points">>

\* !serviceAccountEmail || !privateKey || !projectId
CredentialsMissing(e) ==
    \/ e.GEE_SERVICE_ACCOUNT_EMAIL = "unset"
    \/ e.GEE_PRIVATE_KEY = "unset"
    \/ e.GEE_PROJECT_ID = "unset"

Ok(value, client) == [ok |-> TRUE, value |-> value, error |-> <<>>, authClient |-> client]
Err(msg, client) == [ok |-> FALSE, value |-> <<>>, error |-> msg, authClient |-> client]

\* initializeGEEAuth then auth.getClient() / client.getAccessToken()
getAccessToken_ResetOnFailure(e, client, auth) ==
    IF ~client /\ CredentialsMissing(e) THEN Err(GeeNotConfiguredAuthMsg, client)
    ELSE IF auth = "rejected" THEN Err(<<"invalid_grant">>, FALSE)
    ELSE IF auth = "no_token" THEN Err(NoTokenMsg, FALSE)
    ELSE Ok("token", TRUE)
getAccessToken(e, client, auth) ==
    IF ~client /\ CredentialsMissing(e) THEN Err(GeeNotConfiguredAuthMsg, client)
    ELSE IF auth = "rejected" THEN Err(<<"invalid_grant">>, TRUE)
    ELSE IF auth = "no_token" THEN Err(NoTokenMsg, TRUE)
    ELSE Ok("token", TRUE)

\* polygon.map(([lat, lng]) => [lng, lat])
GeoCoordinates(polygon) == [i \in 1..Len(polygon) |-> <<polygon[i][2], polygon[i][1]>>]

\* polygon.reduce(sum) / polygon.length
centerLat(polygon) ==
    [n |-> SumInts([i \in 1..Len(polygon) |-> polygon[i][1]], Len(polygon)),
     d |-> Len(polygon)]
centerLng(polygon) ==
    [n |-> SumInts([i \in 1..Len(polygon) |-> polygon[i][2]], Len(polygon)),
     d |-> Len(polygon)]

\* the loop  for (i = 0; i < coords.length - 1; i++)  over consecutive pairs
polygonArea_DroppedFactor(coords) ==
    SumInts([i \in 1..(Len(coords) - 1) |->
                coords[i][1] * coords[i + 1][2] - coords[i + 1][1]],
            Len(coords) - 1)
polygonArea(coords) ==
    SumInts([i \in 1..(Len(coords) - 1) |->
                coords[i][1] * coords[i + 1][2] - coords[i + 1][1] * coords[i][2]],
            Len(coords) - 1)

\* Math.abs(polygonArea / 2) * 111320 * 111320, in square meters
totalArea_Signed(coords) ==
    [shoelace |-> polygonArea(coords),
     coef |-> DecTimesMetersPerDegree(DecTimesMetersPerDegree(
                  DecHalf(Dec(1, -4))))]
totalArea(coords) ==
    [shoelace |-> Abs(polygonArea(coords)),
     coef |-> DecTimesMetersPerDegree(DecTimesMetersPerDegree(
                  DecAbs(DecHalf(Dec(1, -4)))))]

\* client.ts:183-190  region of the cropland share
CroplandRegion(lat, lng) ==
    IF QuotGt(lat, 28) THEN (IF QuotGt(lng, 80) THEN "north" ELSE "east")
    ELSE IF QuotLt(lat, 20) THEN (IF QuotGt(lng, 78) THEN "south" ELSE "west")
    ELSE IF QuotGt(lng, 80) THEN "east"
    ELSE IF QuotGt(lng, 75) THEN "central" ELSE "west"

\* client.ts:209-217  region of the crop distribution
CropRegion_CentralInclusive(lat, lng) ==
    IF QuotGt(lat, 28) THEN (IF QuotGt(lng, 80) THEN "north" ELSE "east")
    ELSE IF QuotLt(lat, 20) THEN (IF QuotGt(lng, 78) THEN "south" ELSE "west")
    ELSE IF QuotGt(lng, 80) THEN "east"
    ELSE IF ~QuotLt(lng, 75) THEN "central" ELSE "west"
CropRegion(lat, lng) ==
    IF QuotGt(lat, 28) THEN (IF QuotGt(lng, 80) THEN "north" ELSE "east")
    ELSE IF QuotLt(lat, 20) THEN (IF QuotGt(lng, 78) THEN "south" ELSE "west")
    ELSE IF QuotGt(lng, 80) THEN "east"
    ELSE IF QuotGt(lng, 75) THEN "central" ELSE "west"

\* client.ts:547-555  region of the NDVI pattern
NdviRegion(lat, lng) ==
    IF QuotGt(lat, 28) THEN (IF QuotGt(lng, 80) THEN "north" ELSE "east")
    ELSE IF QuotLt(lat, 20) THEN (IF QuotGt(lng, 78) THEN "south" ELSE "west")
    ELSE IF QuotGt(lng, 80) THEN "east"
    ELSE IF QuotGt(lng, 75) THEN "central" ELSE "west"

\* percent of the polygon that is cropland, per region
regionalCroplandPercentages ==
    [north |-> 52, south |-> 48, east |-> 55, west |-> 43, central |-> 50]

Crop(name, tenths, season) ==
    [name |-> name, percentage |-> Dec(tenths, -1), season |-> season]

\* percentages in tenths of a percent; season "" where the table has none
cropPatterns ==
    [north |-> << Crop("Wheat", 352, "Rabi"), Crop("Rice", 276, "Kharif"),
                  Crop("Sugarcane", 118, "Year-round"), Crop("Cotton", 90, "Kharif"),
                  Crop("Maize", 79, "Kharif"), Crop("Mustard", 56, "Rabi"),
                  Crop("Others", 29, "") >>,
     south |-> << Crop("Rice", 425, "Kharif"), Crop("Coconut", 190, "Year-round"),
                  Crop("Sugarcane", 145, "Year-round"), Crop("Cotton", 106, "Kharif"),
                  Crop("Groundnut", 70, "Kharif"), Crop("Ragi", 34, "Kharif"),
                  Crop("Others", 9, "") >>,
     east |-> << Crop("Rice", 512, "Kharif"), Crop("Jute", 118, "Kharif"),
                 Crop("Wheat", 107, "Rabi"), Crop("Potato", 90, "Rabi"),
                 Crop("Maize", 79, "Kharif"), Crop("Pulses", 51, "Rabi"),
                 Crop("Others", 14, "") >>,
     west |-> << Crop("Cotton", 315, "Kharif"), Crop("Sugarcane", 231, "Year-round"),
                 Crop("Wheat", 191, "Rabi"), Crop("Rice", 118, "Kharif"),
                 Crop("Groundnut", 79, "Kharif"), Crop("Bajra", 34, "Kharif"),
                 Crop("Others", 8, "") >>,
     central |-> << Crop("Wheat", 400, "Rabi"), Crop("Rice", 276, "Kharif"),
                    Crop("Soybean", 146, "Kharif"), Crop("Cotton", 90, "Kharif"),
                    Crop("Pulses", 56, "Rabi"), Crop("Maize", 34, "Kharif"),
                    Crop("Others", 0, "") >>]

\* (totalCroplandArea * crop.percentage) / 100 / 10000, in hectares
CropArea_NoHectares(totalCroplandArea, percentage) ==
    AreaDivPow10(AreaTimes(totalCroplandArea, percentage), 2)
CropArea(totalCroplandArea, percentage) ==
    AreaDivPow10(AreaDivPow10(AreaTimes(totalCroplandArea, percentage), 2), 4)

estimateCropDistribution(region, totalCroplandArea) ==
    LET pattern == IF region \in DOMAIN cropPatterns
                   THEN cropPatterns[region] ELSE cropPatterns.central
    IN [i \in 1..Len(pattern) |->
          [name |-> pattern[i].name,
           area |-> CropArea(totalCroplandArea, pattern[i].percentage),
           percentage |-> pattern[i].percentage,
           season |-> pattern[i].season]]

\* (totalArea * croplandPercentage) / 100
croplandArea(total, region) ==
    AreaDivPow10(AreaTimes(total, Dec(regionalCroplandPercentages[region], 0)), 2)

fetchCropDataFromGEEAPI(geometry, lat, lng, polygon) ==
    LET total == totalArea(geometry)
        cropland == croplandArea(total, CroplandRegion(lat, lng))
        region == CropRegion(lat, lng)
    IN [crops |-> estimateCropDistribution(region, cropland),
        location |-> [latitude |-> lat, longitude |-> lng, polygon |-> polygon],
        metadata |-> [region |-> region,
                      croplandAreaM2 |-> cropland,
                      totalAreaM2 |-> total,
                      croplandPercentage |->
                          IF ~AreaIsZero(total)
                          THEN regionalCroplandPercentages[CroplandRegion(lat, lng)]
                          ELSE 0]]

\* the credential check precedes the try block, so its error is not prefixed
fetchCropDataFromGEE_CheckInsideTry(polygon, e, client, auth) ==
    IF CredentialsMissing(e) THEN Err(GeeErrorPrefix \o GeeNotConfiguredEnvMsg, client)
    ELSE IF Len(polygon) < 3 THEN Err(TooFewPointsMsg, client)
    ELSE LET token == getAccessToken(e, client, auth)
         IN IF ~token.ok THEN Err(GeeErrorPrefix \o token.error, token.authClient)
            ELSE Ok(fetchCropDataFromGEEAPI(GeoCoordinates(polygon),
                        centerLat(polygon), centerLng(polygon), polygon),
                    token.authClient)
fetchCropDataFromGEE(polygon, e, client, auth) ==
    IF CredentialsMissing(e) THEN Err(GeeNotConfiguredEnvMsg, client)
    ELSE IF Len(polygon) < 3 THEN Err(TooFewPointsMsg, client)
    ELSE LET token == getAccessToken(e, client, auth)
         IN IF ~token.ok THEN Err(GeeErrorPrefix \o token.error, token.authClient)
            ELSE Ok(fetchCropDataFromGEEAPI(GeoCoordinates(polygon),
                        centerLat(polygon), centerLng(polygon), polygon),
                    token.authClient)

----------------------------------------------------------------------------
(* lib/gee/client.ts: fetchNDVIFromGEE *)

DecMin(x, y) == IF DecLeq(x, y) THEN x ELSE y
DecMax(x, y) == IF DecLeq(x, y) THEN y ELSE x
\* Math.max(-1, Math.min(1, x))
Clamp(x) == DecMax(Dec(-1, 0), DecMin(Dec(1, 0), x))

\* Math.round(x * 10^places) / 10^places, halves rounded up
RoundTo(x, places) ==
    IF x.e >= -places THEN x
    ELSE LET drop == (-places) - x.e
         IN Dec((x.m + 5 * Pow10(drop - 1)) \div Pow10(drop), -places)

regionalNDVIPatterns ==
    [north   |-> [mean |-> Dec(45, -2), range |-> <<Dec(25, -2), Dec(65, -2)>>],
     south   |-> [mean |-> Dec(52, -2), range |-> <<Dec(30, -2), Dec(70, -2)>>],
     east    |-> [mean |-> Dec(58, -2), range |-> <<Dec(35, -2), Dec(75, -2)>>],
     west    |-> [mean |-> Dec(38, -2), range |-> <<Dec(20, -2), Dec(55, -2)>>],
     central |-> [mean |-> Dec(42, -2), range |-> <<Dec(22, -2), Dec(60, -2)>>]]

\* month is end.getMonth(), 0..11
seasonalAdjustment_OneBased(month) ==
    IF month >= 7 /\ month <= 10 THEN Dec(15, -2)
    ELSE IF month >= 11 /\ month <= 12 THEN Dec(10, -2)
    ELSE IF month >= 4 /\ month <= 6 THEN Dec(-10, -2)
    ELSE Dec(0, 0)
seasonalAdjustment(month) ==
    IF month >= 6 /\ month <= 9 THEN Dec(15, -2)
    ELSE IF month >= 10 /\ month <= 11 THEN Dec(10, -2)
    ELSE IF month >= 3 /\ month <= 5 THEN Dec(-10, -2)
    ELSE Dec(0, 0)

\* status and percentage by the breakpoints 0.6, 0.4, 0.2, 0.0
vegetationHealth_Exclusive(meanNDVI) ==
    IF ~DecLeq(meanNDVI, Dec(6, -1))
    THEN [status |-> "excellent",
          percentage |-> DecAdd(Dec(85, 0),
                                DecMul(DecSub(meanNDVI, Dec(6, -1)), Dec(375, 0)))]
    ELSE IF ~DecLeq(meanNDVI, Dec(4, -1))
    THEN [status |-> "good",
          percentage |-> DecAdd(Dec(65, 0),
                                DecMul(DecSub(meanNDVI, Dec(4, -1)), Dec(100, 0)))]
    ELSE IF ~DecLeq(meanNDVI, Dec(2, -1))
    THEN [status |-> "moderate",
          percentage |-> DecAdd(Dec(40, 0),
                                DecMul(DecSub(meanNDVI, Dec(2, -1)), Dec(125, 0)))]
    ELSE IF ~DecLeq(meanNDVI, Dec(0, 0))
    THEN [status |-> "poor",
          percentage |-> DecAdd(Dec(20, 0), DecMul(meanNDVI, Dec(100, 0)))]
    ELSE [status |-> "very_poor",
          percentage |-> DecMax(Dec(0, 0),
                                DecAdd(Dec(20, 0), DecMul(meanNDVI, Dec(200, 0))))]
vegetationHealth(meanNDVI) ==
    IF DecLeq(Dec(6, -1), meanNDVI)
    THEN [status |-> "excellent",
          percentage |-> DecAdd(Dec(85, 0),
                                DecMul(DecSub(meanNDVI, Dec(6, -1)), Dec(375, 0)))]
    ELSE IF DecLeq(Dec(4, -1), meanNDVI)
    THEN [status |-> "good",
          percentage |-> DecAdd(Dec(65, 0),
                                DecMul(DecSub(meanNDVI, Dec(4, -1)), Dec(100, 0)))]
    ELSE IF DecLeq(Dec(2, -1), meanNDVI)
    THEN [status |-> "moderate",
          percentage |-> DecAdd(Dec(40, 0),
                                DecMul(DecSub(meanNDVI, Dec(2, -1)), Dec(125, 0)))]
    ELSE IF DecLeq(Dec(0, 0), meanNDVI)
    THEN [status |-> "poor",
          percentage |-> DecAdd(Dec(20, 0), DecMul(meanNDVI, Dec(100, 0)))]
    ELSE [status |-> "very_poor",
          percentage |-> DecMax(Dec(0, 0),
                                DecAdd(Dec(20, 0), DecMul(meanNDVI, Dec(200, 0))))]

ndviEstimate_TenfoldHalf(polygon, month) ==
    LET lat == centerLat(polygon)
        lng == centerLng(polygon)
        region == NdviRegion(lat, lng)
        pattern == IF region \in DOMAIN regionalNDVIPatterns
                   THEN regionalNDVIPatterns[region] ELSE regionalNDVIPatterns.central
        adj == seasonalAdjustment(month)
        half == DecMul(adj, Dec(5, 0))
        meanNDVI == Clamp(DecAdd(pattern.mean, adj))
        minNDVI == Clamp(DecAdd(pattern.range[1], half))
        maxNDVI == Clamp(DecAdd(pattern.range[2], half))
        stdDev == DecMul(DecSub(maxNDVI, minNDVI), Dec(25, -2))
        health == vegetationHealth(meanNDVI)
    IN [ndvi |-> [mean |-> RoundTo(meanNDVI, 3), min |-> RoundTo(minNDVI, 3),
                  max |-> RoundTo(maxNDVI, 3), stdDev |-> RoundTo(stdDev, 3)],
        vegetationHealth |-> [status |-> health.status,
                              percentage |-> RoundTo(health.percentage, 1)],
        location |-> [latitude |-> lat, longitude |-> lng, polygon |-> polygon],
        region |-> region]
ndviEstimate(polygon, month) ==
    LET lat == centerLat(polygon)
        lng == centerLng(polygon)
        region == NdviRegion(lat, lng)
        pattern == IF region \in DOMAIN regionalNDVIPatterns
                   THEN regionalNDVIPatterns[region] ELSE regionalNDVIPatterns.central
        adj == seasonalAdjustment(month)
        half == DecMul(adj, Dec(5, -1))
        meanNDVI == Clamp(DecAdd(pattern.mean, adj))
        minNDVI == Clamp(DecAdd(pattern.range[1], half))
        maxNDVI == Clamp(DecAdd(pattern.range[2], half))
        stdDev == DecMul(DecSub(maxNDVI, minNDVI), Dec(25, -2))
        health == vegetationHealth(meanNDVI)
    IN [ndvi |-> [mean |-> RoundTo(meanNDVI, 3), min |-> RoundTo(minNDVI, 3),
                  max |-> RoundTo(maxNDVI, 3), stdDev |-> RoundTo(stdDev, 3)],
        vegetationHealth |-> [status |-> health.status,
                              percentage |-> RoundTo(health.percentage, 1)],
        location |-> [latitude |-> lat, longitude |-> lng, polygon |-> polygon],
        region |-> region]

\* dates: whether startDate / endDate parse, and the month of the end date
\* (of the current date when endDate is not given)
Dates == { [valid |-> TRUE, month |-> m] : m \in 0..11 }
           \cup { [valid |-> FALSE, month |-> 0] }
NoDates == [valid |-> TRUE, month |-> 0]

\* the dates are read only once a token has been obtained
NdviInputs ==
    { [dates |-> d, auth |-> "token"] : d \in Dates }
      \cup { [dates |-> NoDates, auth |-> a] : a \in AuthOutcomes }

fetchNDVIFromGEE(polygon, dates, e, client, auth) ==
    IF CredentialsMissing(e) THEN Err(GeeNotConfiguredEnvMsg, client)
    ELSE IF Len(polygon) < 3 THEN Err(TooFewPointsMsg, client)
    ELSE LET token == getAccessToken(e, client, auth)
         IN IF ~token.ok THEN Err(GeeErrorPrefix \o token.error, token.authClient)
            ELSE IF ~dates.valid
            THEN Err(GeeErrorPrefix \o <<"Invalid time value">>, token.authClient)
            ELSE Ok(ndviEstimate(polygon, dates.month), token.authClient)

----------------------------------------------------------------------------
(* app/(chat)/api/crop-data/route.ts and app/(chat)/api/ndvi/route.ts *)

NeedPolygonMsg == <<"Polygon with at least 3 points is required">>
OutsideIndiaMsg == <<"Polygon must be entirely within India bounds">>

\* !polygon || !Array.isArray(polygon) || polygon.length < 3
PolygonMissing(polygon) ==
    \/ polygon.type \in {"undefined", "null"}
    \/ polygon.type # "array"
    \/ Len(polygon.points) < 3

\* polygon.every(([lat, lng]) => lat >= minLat && lat <= maxLat && ...)
allInIndia_Exclusive(points) ==
    \A i \in 1..Len(points) :
        /\ points[i][1] > INDIA_BOUNDS.minLat
        /\ points[i][1] < INDIA_BOUNDS.maxLat
        /\ points[i][2] > INDIA_BOUNDS.minLon
        /\ points[i][2] < INDIA_BOUNDS.maxLon
allInIndia(points) ==
    \A i \in 1..Len(points) :
        /\ points[i][1] >= INDIA_BOUNDS.minLat
        /\ points[i][1] <= INDIA_BOUNDS.maxLat
        /\ points[i][2] >= INDIA_BOUNDS.minLon
        /\ points[i][2] <= INDIA_BOUNDS.maxLon

Response(status, error, data, passed, client) ==
    [status |-> status, error |-> error, data |-> data,
     passed |-> passed, authClient |-> client]

\* the body of a POST handler around its estimator; `estimate` is the settled
\* fetch...FromGEE call for body.polygon, evaluated only when it is reached
PostHandler_OneMessage(body, estimate, client) ==
    IF ~body.parsed
    THEN Response(500, <<"Unexpected end of JSON input">>, <<>>, FALSE, client)
    ELSE IF PolygonMissing(body.polygon)
    THEN Response(400, NeedPolygonMsg, <<>>, FALSE, client)
    ELSE IF ~allInIndia(body.polygon.points)
    THEN Response(400, NeedPolygonMsg, <<>>, FALSE, client)
    ELSE IF estimate.ok
    THEN Response(200, <<>>, estimate.value, TRUE, estimate.authClient)
    ELSE Response(500, estimate.error, <<>>, TRUE, estimate.authClient)
PostHandler(body, estimate, client) ==
    IF ~body.parsed
    THEN Response(500, <<"Unexpected end of JSON input">>, <<>>, FALSE, client)
    ELSE IF PolygonMissing(body.polygon)
    THEN Response(400, NeedPolygonMsg, <<>>, FALSE, client)
    ELSE IF ~allInIndia(body.polygon.points)
    THEN Response(400, OutsideIndiaMsg, <<>>, FALSE, client)
    ELSE IF estimate.ok
    THEN Response(200, <<>>, estimate.value, TRUE, estimate.authClient)
    ELSE Response(500, estimate.error, <<>>, TRUE, estimate.authClient)

\* parseFloat(searchParams.get(...) || ""): NaN for an absent or non-numeric
\* parameter, else the number in hundredths of a degree
NaN == [nan |-> TRUE, value |-> 0]
Num(value) == [nan |-> FALSE, value |-> value]
isNaN(x) == x.nan

NoQuery == [latitude |-> NaN, longitude |-> NaN]

\* `polygon` is the argument of the estimator call, when one was made;
\* `cached` tells whether the module-level authClient was set when the
\* request arrived
NoRequest == [handler |-> "none", body |-> <<>>, query |-> NoQuery,
              dates |-> NoDates, auth |-> "token", polygon |-> <<>>,
              cached |-> FALSE,
              response |-> Response(0, <<>>, <<>>, FALSE, FALSE)]

\* POST /api/crop-data
PostCropDataRequest(body, auth) ==
    LET r == PostHandler(body,
                 fetchCropDataFromGEE(body.polygon.points, env, authClient, auth),
                 authClient)
    IN /\ http.handler = "none"
       /\ http' = [handler |-> "POST /api/crop-data", body |-> body,
                   query |-> NoQuery, dates |-> NoDates, auth |-> auth,
                   polygon |-> IF r.passed THEN body.polygon.points ELSE <<>>,
                   cached |-> authClient,
                   response |-> r]
       /\ authClient' = r.authClient
       /\ UNCHANGED env

PostCropData(body, auth) ==
    /\ PostCropDataRequest(body, auth)
    /\ UNCHANGED <<sqlVars, toolCall, shown, eeInitialized, eeCalls, eeRuns,
                   setup>>

\* POST /api/ndvi
PostNdviRequest(body, dates, auth) ==
    LET r == PostHandler(body,
                 fetchNDVIFromGEE(body.polygon.points, dates, env, authClient, auth),
                 authClient)
    IN /\ http.handler = "none"
       /\ http' = [handler |-> "POST /api/ndvi", body |-> body,
                   query |-> NoQuery, dates |-> dates, auth |-> auth,
                   polygon |-> IF r.passed THEN body.polygon.points ELSE <<>>,
                   cached |-> authClient,
                   response |-> r]
       /\ authClient' = r.authClient
       /\ UNCHANGED env

PostNdvi(body, dates, auth) ==
    /\ PostNdviRequest(body, dates, auth)
    /\ UNCHANGED <<sqlVars, toolCall, shown, eeInitialized, eeCalls, eeRuns,
                   setup>>

NeedLatLngMsg == <<"Latitude and longitude are required">>
OutsideIndiaPointMsg == <<"Location is outside India bounds">>

\* query parameters of a GET: absent, just outside, on and inside the box, and
\* on the thresholds of the region classifier
QueryLats == { NaN, Num(Deg(6, 49)), Num(Deg(6, 50)), Num(Deg(20, 0)),
               Num(Deg(28, 65)), Num(Deg(35, 50)), Num(Deg(35, 51)) }
QueryLngs == { NaN, Num(Deg(67, 99)), Num(Deg(68, 0)), Num(Deg(77, 25)),
               Num(Deg(80, 1)), Num(Deg(97, 50)), Num(Deg(97, 51)) }
Queries2D == { [latitude |-> lat, longitude |-> lng] :
                   lat \in QueryLats, lng \in QueryLngs }

\* latitude < minLat || latitude > maxLat || longitude < minLon || ...
OutsideIndia(latitude, longitude) ==
    \/ latitude < INDIA_BOUNDS.minLat
    \/ latitude > INDIA_BOUNDS.maxLat
    \/ longitude < INDIA_BOUNDS.minLon
    \/ longitude > INDIA_BOUNDS.maxLon

\* the small polygon a GET builds around its point: +-0.05 degrees, the first
\* vertex listed again as the fifth
PointPolygon_Unclosed(latitude, longitude) ==
    << <<latitude - Deg(0, 5), longitude - Deg(0, 5)>>,
       <<latitude + Deg(0, 5), longitude - Deg(0, 5)>>,
       <<latitude + Deg(0, 5), longitude + Deg(0, 5)>>,
       <<latitude - Deg(0, 5), longitude + Deg(0, 5)>> >>
PointPolygon(latitude, longitude) ==
    << <<latitude - Deg(0, 5), longitude - Deg(0, 5)>>,
       <<latitude + Deg(0, 5), longitude - Deg(0, 5)>>,
       <<latitude + Deg(0, 5), longitude + Deg(0, 5)>>,
       <<latitude - Deg(0, 5), longitude + Deg(0, 5)>>,
       <<latitude - Deg(0, 5), longitude - Deg(0, 5)>> >>

\* the body of a GET handler around its estimator; `estimate` is the settled
\* fetch...FromGEE call for the small polygon, evaluated only when it is reached
GetHandler_EstimateFirst(query, estimate, client) ==
    IF ~estimate.ok
    THEN Response(500, estimate.error, <<>>, TRUE, estimate.authClient)
    ELSE IF isNaN(query.latitude) \/ isNaN(query.longitude)
    THEN Response(400, NeedLatLngMsg, <<>>, FALSE, client)
    ELSE IF OutsideIndia(query.latitude.value, query.longitude.value)
    THEN Response(400, OutsideIndiaPointMsg, <<>>, FALSE, client)
    ELSE Response(200, <<>>, estimate.value, TRUE, estimate.authClient)
GetHandler(query, estimate, client) ==
    IF isNaN(query.latitude) \/ isNaN(query.longitude)
    THEN Response(400, NeedLatLngMsg, <<>>, FALSE, client)
    ELSE IF OutsideIndia(query.latitude.value, query.longitude.value)
    THEN Response(400, OutsideIndiaPointMsg, <<>>, FALSE, client)
    ELSE IF estimate.ok
    THEN Response(200, <<>>, estimate.value, TRUE, estimate.authClient)
    ELSE Response(500, estimate.error, <<>>, TRUE, estimate.authClient)

\* GET /api/crop-data?latitude=..&longitude=..
GetCropDataRequest(query, auth) ==
    LET polygon == PointPolygon(query.latitude.value, query.longitude.value)
        r == GetHandler(query,
                 fetchCropDataFromGEE(polygon, env, authClient, auth), authClient)
    IN /\ http.handler = "none"
       /\ http' = [handler |-> "GET /api/crop-data", body |-> <<>>,
                   query |-> query, dates |-> NoDates, auth |-> auth,
                   polygon |-> IF r.passed THEN polygon ELSE <<>>,
                   cached |-> authClient,
                   response |-> r]
       /\ authClient' = r.authClient
       /\ UNCHANGED env

GetCropData(query, auth) ==
    /\ GetCropDataRequest(query, auth)
    /\ UNCHANGED <<sqlVars, toolCall, shown, eeInitialized, eeCalls, eeRuns,
                   setup>>

\* GET /api/ndvi?latitude=..&longitude=..&startDate=..&endDate=..
GetNdviRequest(query, dates, auth) ==
    LET polygon == PointPolygon(query.latitude.value, query.longitude.value)
        r == GetHandler(query,
                 fetchNDVIFromGEE(polygon, dates, env, authClient, auth),
                 authClient)
    IN /\ http.handler = "none"
       /\ http' = [handler |-> "GET /api/ndvi", body |-> <<>>,
                   query |-> query, dates |-> dates, auth |-> auth,
                   polygon |-> IF r.passed THEN polygon ELSE <<>>,
                   cached |-> authClient,
                   response |-> r]
       /\ authClient' = r.authClient
       /\ UNCHANGED env

GetNdvi(query, dates, auth) ==
    /\ GetNdviRequest(query, dates, auth)
    /\ UNCHANGED <<sqlVars, toolCall, shown, eeInitialized, eeCalls, eeRuns,
                   setup>>

\* the response has been delivered: the request and everything built for it
\* are gone, the module-level authClient stays for the next request
Delivered ==
    /\ http.handler # "none"
    /\ http' = NoRequest
    /\ UNCHANGED <<env, authClient>>
    /\ UNCHANGED <<sqlVars, toolCall, shown, eeInitialized, eeCalls, eeRuns,
                   setup>>

InitHttp ==
    /\ env \in Envs
    /\ authClient = FALSE
    /\ http = NoRequest

----------------------------------------------------------------------------
(* lib/ai/tools/get-crop-data.ts (getCropData) and get-ndvi.ts (getNDVI) *)

ShowMapCropMsg ==
    <<"I'll show you a map of India. Please click on the map to place a pin on the region where you'd like to see crop data.">>
ShowMapNdviMsg ==
    <<"I'll show you a map of India. Please draw a polygon on the map to select the region where you'd like to analyze vegetation health using NDVI.">>

\* an optional number of the input schema, in hundredths of a degree
Undefined == [defined |-> FALSE, value |-> 0]
Defined(value) == [defined |-> TRUE, value |-> value]

\* inputs that pass the zod schema of getCropData: each coordinate absent,
\* just outside, on and inside the box
CropToolInputs ==
    { [action |-> "show_map", latitude |-> Undefined, longitude |-> Undefined] }
      \cup { [action |-> "fetch_data", latitude |-> lat, longitude |-> lng] :
                 lat \in { Undefined, Defined(Deg(6, 49)), Defined(Deg(6, 50)),
                           Defined(Deg(28, 65)), Defined(Deg(35, 50)),
                           Defined(Deg(35, 51)) },
                 lng \in { Undefined, Defined(Deg(67, 99)), Defined(Deg(68, 0)),
                           Defined(Deg(77, 25)), Defined(Deg(97, 50)),
                           Defined(Deg(97, 51)) } }

\* inputs that pass the zod schema of getNDVI; startDate and endDate are left out
NdviToolInputs ==
    { [action |-> a, polygon |-> [type |-> "undefined", points |-> <<>>]] :
          a \in {"show_map", "fetch_data"} }
      \cup { [action |-> "fetch_data", polygon |-> [type |-> "array", points |-> pts]] :
                 pts \in Polygons }

\* what execute returns: kind "returned" with an instruction message, an
\* error or data; kind "thrown" were an exception to leave execute
NoToolResult == [kind |-> "none", action |-> "", message |-> <<>>, error |-> <<>>,
                 location |-> <<>>, data |-> <<>>]
ToolError(error) == [NoToolResult EXCEPT !.kind = "returned", !.error = error]
ToolData(location, data) ==
    [NoToolResult EXCEPT !.kind = "returned", !.action = "fetch_data",
                         !.location = location, !.data = data]

\* get-crop-data.ts:12-39  what getCropData returns without fetching;
\* NoToolResult when it goes on to fetch
CropToolRefusal_NoBoundsCheck(input) ==
    IF input.action = "show_map"
    THEN [NoToolResult EXCEPT !.kind = "returned", !.action = "show_map",
                              !.message = ShowMapCropMsg]
    ELSE IF ~input.latitude.defined \/ ~input.longitude.defined
    THEN ToolError(<<"Latitude and longitude are required to fetch crop data.">>)
    ELSE NoToolResult
CropToolRefusal(input) ==
    IF input.action = "show_map"
    THEN [NoToolResult EXCEPT !.kind = "returned", !.action = "show_map",
                              !.message = ShowMapCropMsg]
    ELSE IF ~input.latitude.defined \/ ~input.longitude.defined
    THEN ToolError(<<"Latitude and longitude are required to fetch crop data.">>)
    ELSE IF \/ input.latitude.value < Deg(6, 50)
            \/ input.latitude.value > Deg(35, 50)
            \/ input.longitude.value < Deg(68, 0)
            \/ input.longitude.value > Deg(97, 50)
    THEN ToolError(
             <<"The selected location is outside India. Please select a location within India.">>)
    ELSE NoToolResult

\* get-crop-data.ts:41-71  what getCropData returns once fetch has settled
CropToolFetched_Rethrow(input, net, response) ==
    IF net = "fetch_failed"
    THEN [NoToolResult EXCEPT !.kind = "thrown", !.error = <<"fetch failed">>]
    ELSE IF response.status # 200
    THEN (IF net = "bad_json" THEN ToolError(<<"Failed to fetch crop data">>)
          ELSE IF response.error # <<>> THEN ToolError(response.error)
          ELSE ToolError(<<"Failed to fetch crop data from Google Earth Engine">>))
    ELSE IF net = "bad_json"
    THEN [NoToolResult EXCEPT !.kind = "thrown",
                              !.error = <<"Unexpected token < in JSON">>]
    ELSE ToolData([latitude |-> input.latitude.value,
                   longitude |-> input.longitude.value], response.data)
CropToolFetched(input, net, response) ==
    IF net = "fetch_failed"
    THEN ToolError(<<"Error fetching crop data: ", "fetch failed">>)
    ELSE IF response.status # 200
    THEN (IF net = "bad_json" THEN ToolError(<<"Failed to fetch crop data">>)
          ELSE IF response.error # <<>> THEN ToolError(response.error)
          ELSE ToolError(<<"Failed to fetch crop data from Google Earth Engine">>))
    ELSE IF net = "bad_json"
    THEN ToolError(<<"Error fetching crop data: ", "Unexpected token < in JSON">>)
    ELSE ToolData([latitude |-> input.latitude.value,
                   longitude |-> input.longitude.value], response.data)

\* get-ndvi.ts:13-42  what getNDVI returns without fetching
NdviToolRefusal_ExclusiveBounds(input) ==
    IF input.action = "show_map"
    THEN [NoToolResult EXCEPT !.kind = "returned", !.action = "show_map",
                              !.message = ShowMapNdviMsg]
    ELSE IF input.polygon.type = "undefined" \/ Len(input.polygon.points) < 3
    THEN ToolError(<<"A polygon with at least 3 points is required to fetch NDVI data.">>)
    ELSE IF ~(\A i \in 1..Len(input.polygon.points) :
                /\ input.polygon.points[i][1] > Deg(6, 50)
                /\ input.polygon.points[i][1] < Deg(35, 50)
                /\ input.polygon.points[i][2] > Deg(68, 0)
                /\ input.polygon.points[i][2] < Deg(97, 50))
    THEN ToolError(
             <<"The selected polygon is outside India. Please select a region within India.">>)
    ELSE NoToolResult
NdviToolRefusal(input) ==
    IF input.action = "show_map"
    THEN [NoToolResult EXCEPT !.kind = "returned", !.action = "show_map",
                              !.message = ShowMapNdviMsg]
    ELSE IF input.polygon.type = "undefined" \/ Len(input.polygon.points) < 3
    THEN ToolError(<<"A polygon with at least 3 points is required to fetch NDVI data.">>)
    ELSE IF ~(\A i \in 1..Len(input.polygon.points) :
                /\ input.polygon.points[i][1] >= Deg(6, 50)
                /\ input.polygon.points[i][1] <= Deg(35, 50)
                /\ input.polygon.points[i][2] >= Deg(68, 0)
                /\ input.polygon.points[i][2] <= Deg(97, 50))
    THEN ToolError(
             <<"The selected polygon is outside India. Please select a region within India.">>)
    ELSE NoToolResult

\* get-ndvi.ts:45-86  what getNDVI returns once fetch has settled
NdviToolFetched(input, net, response) ==
    IF net = "fetch_failed"
    THEN ToolError(<<"Error fetching NDVI data: ", "fetch failed">>)
    ELSE IF response.status # 200
    THEN (IF net = "bad_json" THEN ToolError(<<"Failed to fetch NDVI data">>)
          ELSE IF response.error # <<>> THEN ToolError(response.error)
          ELSE ToolError(<<"Failed to fetch NDVI data from Google Earth Engine">>))
    ELSE IF net = "bad_json"
    THEN ToolError(<<"Error fetching NDVI data: ", "Unexpected token < in JSON">>)
    ELSE ToolData(response.data.location, response.data)

NoToolCall == [tool |-> "none", input |-> <<>>, net |-> "ok", requests |-> 0,
               result |-> NoToolResult]

\* getCropData.execute(input): the fetch, when made, is a GET of /api/crop-data
\* with the input's coordinates in the query string
CropTool(input, net, auth) ==
    LET refusal == CropToolRefusal(input)
        fetches == refusal = NoToolResult
        answered == fetches /\ net # "fetch_failed"
    IN /\ toolCall.tool = "none" /\ http.handler = "none"
       /\ IF answered
          THEN GetCropDataRequest([latitude |-> Num(input.latitude.value),
                                   longitude |-> Num(input.longitude.value)], auth)
          ELSE UNCHANGED httpVars
       /\ toolCall' = [tool |-> "getCropData", input |-> input, net |-> net,
                       requests |-> IF fetches THEN 1 ELSE 0,
                       result |-> IF fetches
                                  THEN CropToolFetched(input, net, http'.response)
                                  ELSE refusal]
       /\ shown' = IF input.action = "show_map"
                   THEN shown \cup {"getCropData"} ELSE shown
       /\ UNCHANGED <<sqlVars, eeInitialized, eeCalls, eeRuns, setup>>

\* getNDVI.execute(input): the fetch, when made, is a POST of /api/ndvi with
\* the input's polygon in the JSON body
NdviTool(input, net, auth) ==
    LET refusal == NdviToolRefusal(input)
        fetches == refusal = NoToolResult
        answered == fetches /\ net # "fetch_failed"
    IN /\ toolCall.tool = "none" /\ http.handler = "none"
       /\ IF answered
          THEN PostNdviRequest([parsed |-> TRUE, polygon |-> input.polygon],
                               NoDates, auth)
          ELSE UNCHANGED httpVars
       /\ toolCall' = [tool |-> "getNDVI", input |-> input, net |-> net,
                       requests |-> IF fetches THEN 1 ELSE 0,
                       result |-> IF fetches
                                  THEN NdviToolFetched(input, net, http'.response)
                                  ELSE refusal]
       /\ shown' = IF input.action = "show_map"
                   THEN shown \cup {"getNDVI"} ELSE shown
       /\ UNCHANGED <<sqlVars, eeInitialized, eeCalls, eeRuns, setup>>

\* the result has been handed to the chat: the call and the request it made
\* are gone
ToolDone ==
    /\ toolCall.tool # "none"
    /\ toolCall' = NoToolCall
    /\ http' = NoRequest
    /\ UNCHANGED <<env, authClient, shown>>
    /\ UNCHANGED <<sqlVars, eeInitialized, eeCalls, eeRuns, setup>>

InitTools ==
    /\ toolCall = NoToolCall
    /\ shown = {}

----------------------------------------------------------------------------
(* lib/ai/tools/get-ndvi (Earth Engine client): ensureEEInitialized and the *)
(* getNdvi tool, whose concurrent calls interleave at every await          *)

\* !privateKeyJsonString || !serviceAccountEmail
EECredentialsMissing(e) ==
    e.EE_PRIVATE_KEY = "unset" \/ e.EE_SERVICE_ACCOUNT_EMAIL = "unset"

\* the step after ensureEEInitialized has returned: the input names a city
\* to geocode, or gives latitude and longitude
AfterInit(call) ==
    [call EXCEPT !.pc = IF call.city THEN "geocoding" ELSE "calculating"]

EEFailed(call, error) ==
    [call EXCEPT !.pc = "done", !.result = ToolError(error)]

\* getNdvi.execute is invoked and runs to its first await: the flag is read,
\* the credentials are checked, ee.data.authenticateViaPrivateKey is called
EEInvoke(p, city) ==
    /\ eeCalls[p].pc = "idle"
    /\ IF eeInitialized
       THEN /\ eeCalls' = [eeCalls EXCEPT ![p] = AfterInit([@ EXCEPT !.city = city])]
            /\ UNCHANGED eeRuns
       ELSE IF EECredentialsMissing(env)
       THEN /\ eeCalls' = [eeCalls EXCEPT ![p] =
                   EEFailed([@ EXCEPT !.city = city],
                            <<"EE Auth Error: EE_PRIVATE_KEY or EE_SERVICE_ACCOUNT_EMAIL is missing. Check your .env file or Vercel settings.">>)]
            /\ UNCHANGED eeRuns
       ELSE /\ eeCalls' = [eeCalls EXCEPT ![p] =
                               [@ EXCEPT !.pc = "authenticating", !.city = city]]
            /\ eeRuns' = eeRuns + 1
    /\ UNCHANGED eeInitialized
    /\ UNCHANGED <<sqlVars, httpVars, toolCall, shown, setup>>

\* authenticateViaPrivateKey has settled; ee.initialize() is called
EEAuthenticated(p) ==
    /\ eeCalls[p].pc = "authenticating"
    /\ eeCalls' = [eeCalls EXCEPT ![p] = [@ EXCEPT !.pc = "initializing"]]
    /\ UNCHANGED <<eeInitialized, eeRuns>>
    /\ UNCHANGED <<sqlVars, httpVars, toolCall, shown, setup>>

\* authenticateViaPrivateKey or ee.initialize() threw: the catch block wraps
\* the message, getNdvi returns it as { error }
EEInitFails(p) ==
    /\ eeCalls[p].pc \in {"authenticating", "initializing"}
    /\ eeCalls' = [eeCalls EXCEPT ![p] =
                      EEFailed(@, <<"EE Initialization Failed: ", "invalid key",
                                    ". Check key format and permissions.">>)]
    /\ UNCHANGED <<eeInitialized, eeRuns>>
    /\ UNCHANGED <<sqlVars, httpVars, toolCall, shown, setup>>

\* ee.initialize() has settled: eeInitialized = true
EEInitialized(p) ==
    /\ eeCalls[p].pc = "initializing"
    /\ eeInitialized' = TRUE
    /\ eeCalls' = [eeCalls EXCEPT ![p] = AfterInit(@)]
    /\ UNCHANGED eeRuns
    /\ UNCHANGED <<sqlVars, httpVars, toolCall, shown, setup>>

\* geocodeCity, or calculateNdvi after it, has settled with a value or with
\* null
EESettled(p, found) ==
    /\ eeCalls[p].pc \in {"geocoding", "calculating"}
    /\ eeCalls' = [eeCalls EXCEPT ![p] =
          IF eeCalls[p].pc = "geocoding"
          THEN (IF found THEN [@ EXCEPT !.pc = "calculating"]
                ELSE EEFailed(@, <<"Could not find coordinates for city">>))
          ELSE (IF found
                THEN [@ EXCEPT !.pc = "done",
                               !.result = ToolData(<<"location">>, <<"ndvi">>)]
                ELSE EEFailed(@, <<"Could not retrieve NDVI">>))]
    /\ UNCHANGED <<eeInitialized, eeRuns>>
    /\ UNCHANGED <<sqlVars, httpVars, toolCall, shown, setup>>

InitEE ==
    /\ eeInitialized = FALSE
    /\ eeCalls = [p \in Procs |-> [pc |-> "idle", city |-> FALSE,
                                   result |-> NoToolResult]]
    /\ eeRuns = 0

----------------------------------------------------------------------------
(* mandi_price/db_util.ts: setupDatabase, the one-time CSV import *)

MaxRecords == 3      \* longest CSV file, in records

\* position of the script, the records of the CSV file, how many the stream
\* has emitted, the state of the insert started for each, rowCount, and what
\* was true when COMMIT ran
SetupStart(records) ==
    [pc |-> "start", records |-> records, emitted |-> 0, inserts |-> <<>>,
     rowCount |-> 0,
     commit |-> [done |-> FALSE, rowCount |-> 0, pending |-> {}]]

PendingInserts(st) == { i \in 1..Len(st.inserts) : st.inserts[i] = "pending" }

\* db_util.ts:108-133  open, CREATE TABLE, prepare, BEGIN TRANSACTION, then
\* the read stream is created and piped into the parser; when one of the
\* awaits before the try block rejects, setupDatabase rejects
SetupBegin(ok) ==
    /\ setup.pc = "start"
    /\ setup' = [setup EXCEPT !.pc = IF ok THEN "streaming" ELSE "rejected"]
    /\ UNCHANGED <<sqlVars, httpVars, toolCall, shown, eeInitialized, eeCalls,
                   eeRuns>>

\* db_util.ts:134-150  'data': the async handler runs to its await, which
\* starts the insert; the stream does not wait for the handler's promise
StreamData ==
    /\ setup.pc = "streaming"
    /\ setup.emitted < setup.records
    /\ setup' = [setup EXCEPT !.emitted = @ + 1,
                              !.inserts = Append(@, "pending")]
    /\ UNCHANGED <<sqlVars, httpVars, toolCall, shown, eeInitialized, eeCalls,
                   eeRuns>>

\* db_util.ts:150-151  insertStmt.run settles: on success rowCount++, on
\* failure the handler's promise rejects and nobody looks at it
InsertSettles(i, ok) ==
    /\ i \in PendingInserts(setup)
    /\ setup' = [setup EXCEPT !.inserts[i] = IF ok THEN "done" ELSE "failed",
                              !.rowCount = IF ok THEN @ + 1 ELSE @]
    /\ UNCHANGED <<sqlVars, httpVars, toolCall, shown, eeInitialized, eeCalls,
                   eeRuns>>

\* db_util.ts:153-161  'end' resolves the promise: COMMIT is issued
StreamEnd ==
    /\ setup.pc = "streaming"
    /\ setup.emitted = setup.records
    /\ setup' = [setup EXCEPT !.pc = "committing"]
    /\ UNCHANGED <<sqlVars, httpVars, toolCall, shown, eeInitialized, eeCalls,
                   eeRuns>>

\* db_util.ts:156-158, 164-165  'error' rejects the promise: ROLLBACK
StreamError ==
    /\ setup.pc = "streaming"
    /\ setup' = [setup EXCEPT !.pc = "rolling back"]
    /\ UNCHANGED <<sqlVars, httpVars, toolCall, shown, eeInitialized, eeCalls,
                   eeRuns>>

\* COMMIT runs; control enters finally
CommitRuns ==
    /\ setup.pc = "committing"
    /\ setup' = [setup EXCEPT !.pc = "finalizing",
                              !.commit = [done |-> TRUE, rowCount |-> setup.rowCount,
                                          pending |-> PendingInserts(setup)]]
    /\ UNCHANGED <<sqlVars, httpVars, toolCall, shown, eeInitialized, eeCalls,
                   eeRuns>>

\* ROLLBACK runs; control enters finally
RollbackRuns ==
    /\ setup.pc = "rolling back"
    /\ setup' = [setup EXCEPT !.pc = "finalizing"]
    /\ UNCHANGED <<sqlVars, httpVars, toolCall, shown, eeInitialized, eeCalls,
                   eeRuns>>

\* db_util.ts:168  insertStmt.finalize()
Finalize ==
    /\ setup.pc = "finalizing"
    /\ setup' = [setup EXCEPT !.pc = "closing"]
    /\ UNCHANGED <<sqlVars, httpVars, toolCall, shown, eeInitialized, eeCalls,
                   eeRuns>>

\* db_util.ts:169  db.close()
SetupClose ==
    /\ setup.pc = "closing"
    /\ setup' = [setup EXCEPT !.pc = "closed"]
    /\ UNCHANGED <<sqlVars, httpVars, toolCall, shown, eeInitialized, eeCalls,
                   eeRuns>>

InitSetup == setup = SetupStart(0)

----------------------------------------------------------------------------
(* Specifications *)

\* the mandi-price tool under concurrent invocations; the HTTP side is idle
NextSql ==
    \/ \E p \in Procs, q \in Queries : Invoke(p, q)
    \/ \E p \in Procs : OpenOk(p)
    \/ \E p \in Procs : OpenFail(p)
    \/ \E p \in Procs, n \in RowCounts : QueryOk(p, n)
    \/ \E p \in Procs : QueryFail(p)
    \/ \E p \in Procs : Close(p)

InitSqlOnly ==
    /\ InitSql
    /\ env = [GEE_SERVICE_ACCOUNT_EMAIL |-> "set", GEE_PRIVATE_KEY |-> "set",
              GEE_PROJECT_ID |-> "set"]
    /\ authClient = FALSE
    /\ http = NoRequest
    /\ InitTools /\ InitEE /\ InitSetup

SpecSql == InitSqlOnly /\ [][NextSql]_vars

\* the request passes the handler's validation
BodyIsValid(body) ==
    body.parsed /\ ~PolygonMissing(body.polygon) /\ allInIndia(body.polygon.points)
QueryIsValid(query) ==
    /\ ~isNaN(query.latitude) /\ ~isNaN(query.longitude)
    /\ ~OutsideIndia(query.latitude.value, query.longitude.value)

\* the dates of an NDVI request are read only by the estimator
NdviInputsFor(valid) ==
    IF valid THEN NdviInputs
    ELSE { [dates |-> NoDates, auth |-> a] : a \in AuthOutcomes }

\* the HTTP endpoints, one request after another; the SQL side is idle
NextHttp ==
    \/ \E body \in Bodies, auth \in AuthOutcomes : PostCropData(body, auth)
    \/ \E body \in Bodies : \E inp \in NdviInputsFor(BodyIsValid(body)) :
          PostNdvi(body, inp.dates, inp.auth)
    \/ \E query \in Queries2D, auth \in AuthOutcomes : GetCropData(query, auth)
    \/ \E query \in Queries2D : \E inp \in NdviInputsFor(QueryIsValid(query)) :
          GetNdvi(query, inp.dates, inp.auth)
    \/ Delivered

Init == InitSql /\ InitHttp /\ InitTools /\ InitEE /\ InitSetup

SpecHttp == Init /\ [][NextHttp]_vars

\* requests made directly to the endpoints while the tools are in use
DirectBodies ==
    { [parsed |-> FALSE, polygon |-> [type |-> "undefined", points |-> <<>>]],
      [parsed |-> TRUE, polygon |-> [type |-> "undefined", points |-> <<>>]],
      [parsed |-> TRUE, polygon |-> [type |-> "array", points |-> DelhiPolygon]],
      [parsed |-> TRUE,
       polygon |-> [type |-> "array",
                    points |-> << <<Deg(35, 51), Deg(80, 0)>>,
                                  <<Deg(35, 50), Deg(97, 50)>>,
                                  <<Deg(6, 50), Deg(68, 0)>> >>]] }
DirectQueries ==
    { NoQuery,
      [latitude |-> Num(Deg(35, 51)), longitude |-> Num(Deg(77, 25))],
      [latitude |-> Num(Deg(28, 65)), longitude |-> Num(Deg(77, 25))] }

\* what becomes of the fetch (the endpoint answers and the answer is read,
\* the fetch itself rejects, or the answer's body is not JSON) and of the
\* token request behind it; they matter only when a fetch is made
ToolFetchesFor(fetches) ==
    IF fetches
    THEN { [net |-> "ok", auth |-> a] : a \in AuthOutcomes }
           \cup { [net |-> n, auth |-> "token"] :
                      n \in {"ok", "fetch_failed", "bad_json"} }
    ELSE { [net |-> "ok", auth |-> "token"] }

\* the chat's tools and the endpoints behind them, one call after another
NextTools ==
    \/ \E input \in CropToolInputs :
          \E f \in ToolFetchesFor(CropToolRefusal(input) = NoToolResult) :
              CropTool(input, f.net, f.auth)
    \/ \E input \in NdviToolInputs :
          \E f \in ToolFetchesFor(NdviToolRefusal(input) = NoToolResult) :
              NdviTool(input, f.net, f.auth)
    \/ ToolDone
    \/ /\ toolCall.tool = "none"
       /\ \E body \in DirectBodies, auth \in AuthOutcomes : PostCropData(body, auth)
    \/ /\ toolCall.tool = "none"
       /\ \E body \in DirectBodies, auth \in AuthOutcomes :
             PostNdvi(body, NoDates, auth)
    \/ /\ toolCall.tool = "none"
       /\ \E query \in DirectQueries, auth \in AuthOutcomes : GetCropData(query, auth)
    \/ /\ toolCall.tool = "none"
       /\ \E query \in DirectQueries, auth \in AuthOutcomes :
             GetNdvi(query, NoDates, auth)
    \/ Delivered

SpecTools == Init /\ [][NextTools]_vars

\* concurrent getNdvi calls of the Earth Engine tool
NextEE ==
    \/ \E p \in Procs, city \in BOOLEAN : EEInvoke(p, city)
    \/ \E p \in Procs : EEAuthenticated(p)
    \/ \E p \in Procs : EEInitFails(p)
    \/ \E p \in Procs : EEInitialized(p)
    \/ \E p \in Procs, found \in BOOLEAN : EESettled(p, found)

InitEEOnly ==
    /\ InitSql
    /\ env \in [EE_PRIVATE_KEY : CredValues, EE_SERVICE_ACCOUNT_EMAIL : CredValues]
    /\ authClient = FALSE
    /\ http = NoRequest
    /\ InitTools /\ InitEE /\ InitSetup

SpecEE == InitEEOnly /\ [][NextEE]_vars

\* one run of the setupDatabase script
NextSetup ==
    \/ \E ok \in BOOLEAN : SetupBegin(ok)
    \/ StreamData
    \/ \E i \in 1..MaxRecords, ok \in BOOLEAN : InsertSettles(i, ok)
    \/ StreamEnd
    \/ StreamError
    \/ CommitRuns
    \/ RollbackRuns
    \/ Finalize
    \/ SetupClose

InitSetupOnly ==
    /\ InitSql /\ InitHttp /\ InitTools /\ InitEE
    /\ setup \in { SetupStart(n) : n \in 0..MaxRecords }

SpecSetup == InitSetupOnly /\ [][NextSetup]_vars

Next == NextSql \/ NextHttp \/ NextTools \/ NextEE \/ NextSetup
Spec == Init /\ [][Next]_vars

----------------------------------------------------------------------------
(* Properties of the mandi-price tool (SpecSql) *)

Invoked(p) == calls[p].pc # "idle"
Done(p) == calls[p].pc = "done"

\* C2: a query whose upper-cased text does not begin with SELECT (the empty
\* string and leading whitespace included) is rejected by executeSql, and for
\* it no database handle is opened and no statement is run.
C2_RejectedBeforeExecution ==
    \A p \in Procs :
        (Invoked(p) /\ ~startsWith(toUpperCase(calls[p].query), SELECT)) =>
            /\ Done(p)
            /\ calls[p].exec = Threw(OnlySelectMsg)
            /\ calls[p].handle = NoHandle
            /\ \A entry \in dbLog : entry.by # p

\* a query with whitespace before SELECT was rejected while another call has
\* its statement run
C2_Witness ==
    \E p, q \in Procs :
        /\ calls[p].query = <<" ">> \o SELECT
        /\ calls[p].exec = Threw(OnlySelectMsg)
        /\ \E entry \in dbLog : entry.by = q /\ entry.op = "all"

\* C3: getMandiPrice never throws; when executeSql rejects the query, cannot
\* open the database or fails during execution, the tool returns success=false
\* with an error text that contains the original query.
C3_FailureIsStructured ==
    \A p \in Procs :
        Done(p) =>
            /\ calls[p].result.kind = "returned"
            /\ calls[p].exec.kind = "throw" =>
                  /\ calls[p].result.success = FALSE
                  /\ Includes(calls[p].result.error, calls[p].query)

\* the three failures have each been turned into a result
C3_Witness ==
    \E p, q \in Procs :
        /\ Done(p) /\ calls[p].exec = Threw(<<"SQLITE_ERROR">>)
        /\ calls[p].query = SELECT \o <<" ", "*">>
        /\ Done(q) /\ calls[q].exec = Threw(<<"SQLITE_CANTOPEN">>)

\* C4: a handle opened by an executeSql call is closed before the call
\* settles, whether the statement succeeded or failed; concurrent calls never
\* share a handle and use only their own; when every call has settled no
\* handle is open.
C4_HandlesReleased ==
    /\ \A p \in Procs : Done(p) => calls[p].handle \notin openHandles
    /\ \A p, q \in Procs :
          (p # q /\ calls[p].handle # NoHandle) => calls[p].handle # calls[q].handle
    /\ \A entry \in dbLog : entry.handle = calls[entry.by].handle
    /\ \A p \in Procs :
          calls[p].pc \in {"querying", "closing"} => calls[p].handle \in openHandles
    /\ (\A p \in Procs : Done(p)) => openHandles = {}

\* one call has settled after its statement failed while another still holds
\* its own open handle
C4_Witness ==
    \E p, q \in Procs :
        /\ Done(p) /\ calls[p].exec = Threw(<<"SQLITE_ERROR">>)
        /\ calls[p].handle # NoHandle
        /\ calls[q].pc = "closing" /\ calls[q].handle \in openHandles

----------------------------------------------------------------------------
(* Properties of the HTTP endpoints (SpecHttp) *)

\* a POST has been handled
Handled == http.handler \in {"POST /api/crop-data", "POST /api/ndvi"}
\* a GET has been handled
GetHandled == http.handler \in {"GET /api/crop-data", "GET /api/ndvi"}
GetCropOk == http.handler = "GET /api/crop-data" /\ http.response.status = 200
GetNdviOk == http.handler = "GET /api/ndvi" /\ http.response.status = 200
CropOk == http.handler = "POST /api/crop-data" /\ http.response.status = 200
NdviOk == http.handler = "POST /api/ndvi" /\ http.response.status = 200

\* the polygon of the request is missing, no array, shorter than 3 points or
\* has a point outside latitude [6.5, 35.5] / longitude [68.0, 97.5]
InvalidPolygon(polygon) ==
    \/ polygon.type # "array"
    \/ Len(polygon.points) < 3
    \/ \E i \in 1..Len(polygon.points) :
          \/ polygon.points[i][1] < Deg(6, 50) \/ polygon.points[i][1] > Deg(35, 50)
          \/ polygon.points[i][2] < Deg(68, 0) \/ polygon.points[i][2] > Deg(97, 50)

EstimatorFails ==
    \/ CredentialsMissing(env)
    \/ http.auth # "token"
    \/ http.handler = "POST /api/ndvi" /\ ~http.dates.valid

\* C1: a POST is answered 400 with an error exactly when the body's polygon is
\* invalid; every polygon of >= 3 points inside the box (bounds inclusive) is
\* passed to the estimator; every other failure is answered 500 with an error.
C1_PostValidation ==
    Handled =>
        LET invalid == http.body.parsed /\ InvalidPolygon(http.body.polygon)
            r == http.response
        IN /\ r.status = 400 <=> invalid
           /\ r.status = 400 => r.error # <<>> /\ ~r.passed
           /\ (http.body.parsed /\ ~invalid) <=> r.passed
           /\ r.status = 500 <=> (~http.body.parsed \/ (r.passed /\ EstimatorFails))
           /\ r.status = 500 => r.error # <<>>
           /\ r.status \in {200, 400, 500}

\* a polygon with vertices on the corners of the box was estimated
C1_Witness ==
    /\ Handled /\ http.response.status = 200 /\ http.response.passed
    /\ \E i \in 1..Len(http.body.polygon.points) :
          http.body.polygon.points[i] = <<Deg(6, 50), Deg(68, 0)>>
    /\ \E i \in 1..Len(http.body.polygon.points) :
          http.body.polygon.points[i] = <<Deg(35, 50), Deg(97, 50)>>

\* C5: with a GEE credential absent both estimators fail with the
\* configuration error whatever the polygon, return no estimate, and a request
\* that reaches them is answered 500 with exactly that message.
C5_MissingCredentialsFatal ==
    (Handled /\ http.body.parsed /\ CredentialsMissing(env)) =>
        /\ fetchCropDataFromGEE(http.body.polygon.points, env, authClient, http.auth)
              = Err(GeeNotConfiguredEnvMsg, authClient)
        /\ fetchNDVIFromGEE(http.body.polygon.points, http.dates, env, authClient,
                            http.auth)
              = Err(GeeNotConfiguredEnvMsg, authClient)
        /\ http.response.passed =>
              /\ http.response.status = 500
              /\ http.response.error = GeeNotConfiguredEnvMsg
              /\ http.response.data = <<>>

\* a valid polygon reached the crop estimator with only the private key absent
C5_Witness ==
    /\ http.handler = "POST /api/crop-data" /\ http.response.passed
    /\ env = [GEE_SERVICE_ACCOUNT_EMAIL |-> "set", GEE_PRIVATE_KEY |-> "unset",
              GEE_PROJECT_ID |-> "set"]
    /\ http.response.status = 500

\* the decision table of the region classifier, on a centroid in degrees
RegionTable(lat, lng) ==
    IF QuotGt(lat, 28) THEN (IF QuotGt(lng, 80) THEN "north" ELSE "east")
    ELSE IF QuotLt(lat, 20) THEN (IF QuotGt(lng, 78) THEN "south" ELSE "west")
    ELSE CASE QuotGt(lng, 80) -> "east"
           [] QuotGt(lng, 75) /\ ~QuotGt(lng, 80) -> "central"
           [] ~QuotGt(lng, 75) -> "west"

RECURSIVE DecSum(_, _)
DecSum(f, n) == IF n = 0 THEN Dec(0, 0) ELSE DecAdd(f[n], DecSum(f, n - 1))

Within(x, target, tolerance) ==
    /\ DecLeq(DecSub(x, target), tolerance)
    /\ DecLeq(DecSub(target, x), tolerance)

\* C7: the crop percentages of every region's profile sum to 100 within 0.1.
C7_PercentagesSumTo100 ==
    CropOk =>
        LET crops == http.response.data.crops
        IN Within(DecSum([i \in 1..Len(crops) |-> crops[i].percentage], Len(crops)),
                  Dec(100, 0), Dec(1, -1))

\* C8: the per-crop hectares returned by estimateCropDistribution sum to the
\* area it was given, converted to hectares, to within one part in a thousand.
C8_AreasSumToInput ==
    CropOk =>
        LET crops == http.response.data.crops
            given == http.response.data.metadata.croplandAreaM2
            target == DecDivPow10(given.coef, 4)
            total == DecSum([i \in 1..Len(crops) |-> crops[i].area.coef], Len(crops))
        IN /\ \A i \in 1..Len(crops) : crops[i].area.shoelace = given.shoelace
           /\ AreaIsZero(given) \/ Within(total, target, DecDivPow10(target, 3))

\* the shoelace area of the request's polygon in square meters, as the code
\* computes it over consecutive vertices
ShoelaceM2(polygon) ==
    [shoelace |-> Abs(polygonArea(GeoCoordinates(polygon))),
     coef |-> [m |-> 5, e |-> -5, k |-> 2]]

\* C9 as stated: every crop is allocated shoelace area * percentage / 100 /
\* 10000 hectares.
C9_AreaIsShareOfPolygon ==
    CropOk =>
        LET crops == http.response.data.crops
        IN \A i \in 1..Len(crops) :
              AreaEq(crops[i].area,
                     AreaDivPow10(AreaTimes(ShoelaceM2(http.body.polygon.points),
                                            crops[i].percentage), 6))

\* C9 amended: every crop is allocated cropland area * percentage / 100 /
\* 10000 hectares, the cropland area being the region's cropland percentage of
\* the shoelace area.
C9_AreaIsShareOfCropland ==
    CropOk =>
        LET crops == http.response.data.crops
            region == RegionTable(http.response.data.location.latitude,
                                  http.response.data.location.longitude)
            cropland == AreaDivPow10(
                            AreaTimes(ShoelaceM2(http.body.polygon.points),
                                      Dec(regionalCroplandPercentages[region], 0)), 2)
        IN /\ AreaEq(http.response.data.metadata.totalAreaM2,
                     ShoelaceM2(http.body.polygon.points))
           /\ AreaEq(http.response.data.metadata.croplandAreaM2, cropland)
           /\ Len(crops) = Len(cropPatterns[region])
           /\ \A i \in 1..Len(crops) :
                 /\ crops[i].percentage = cropPatterns[region][i].percentage
                 /\ AreaEq(crops[i].area,
                           AreaDivPow10(AreaTimes(cropland, crops[i].percentage), 6))

\* the Delhi polygon was estimated and Wheat got a non-zero area
C9_Witness ==
    /\ CropOk
    /\ http.body.polygon.points = DelhiPolygon
    /\ \E i \in 1..Len(http.response.data.crops) :
          /\ http.response.data.crops[i].name = "Wheat"
          /\ ~AreaIsZero(http.response.data.crops[i].area)

\* C10: the Delhi polygon is reported as region north with Wheat at 35.2 %.
C10_DelhiIsNorth ==
    (CropOk /\ http.body.polygon.points = DelhiPolygon) =>
        /\ http.response.data.metadata.region = "north"
        /\ \E i \in 1..Len(http.response.data.crops) :
              /\ http.response.data.crops[i].name = "Wheat"
              /\ http.response.data.crops[i].percentage = Dec(352, -1)

----------------------------------------------------------------------------
(* Properties of the area computation (SpecHttp) *)

MaxScale == 2        \* largest factor by which a polygon is scaled

\* the total area fetchCropDataFromGEE reports for `polygon` once a token has
\* been obtained
EstimatedArea(polygon) ==
    fetchCropDataFromGEE(polygon, env, authClient, "token").value.metadata.totalAreaM2

Reversed(polygon) ==
    [i \in 1..Len(polygon) |-> polygon[Len(polygon) + 1 - i]]

\* every coordinate multiplied by k: scaling about the origin (0, 0)
Scaled(k, polygon) ==
    [i \in 1..Len(polygon) |-> <<k * polygon[i][1], k * polygon[i][2]>>]

\* C11: the area estimated for a polygon equals the area estimated for the
\* same polygon with its first point appended again as the last point.
C11_ImplicitlyClosed ==
    CropOk =>
        AreaEq(http.response.data.metadata.totalAreaM2,
               EstimatedArea(Append(http.polygon, http.polygon[1])))

NonNegativeArea(a) == a.shoelace >= 0 /\ a.coef.m >= 0

\* C12: the area estimated for a polygon of >= 3 points within the box is
\* non-negative, for the vertex order of the request and for the opposite one.
C12_AreaNonNegative ==
    (CropOk \/ GetCropOk) =>
        /\ NonNegativeArea(http.response.data.metadata.totalAreaM2)
        /\ NonNegativeArea(EstimatedArea(Reversed(http.polygon)))
        /\ AreaEq(EstimatedArea(Reversed(http.polygon)),
                  http.response.data.metadata.totalAreaM2)

\* a polygon whose signed shoelace sum is negative was estimated with a
\* non-zero area
C12_Witness ==
    /\ CropOk
    /\ polygonArea(GeoCoordinates(http.polygon)) < 0
    /\ polygonArea(GeoCoordinates(Reversed(http.polygon))) > 0
    /\ ~AreaIsZero(http.response.data.metadata.totalAreaM2)

\* C13 as stated: scaling every coordinate by k multiplies the estimated area
\* by k.
C13_AreaScalesLinearly ==
    CropOk =>
        \A k \in 1..MaxScale :
            LET a == http.response.data.metadata.totalAreaM2
                b == EstimatedArea(Scaled(k, http.polygon))
            IN /\ b.shoelace = k * a.shoelace
               /\ b.coef = a.coef

\* C13 amended: scaling every coordinate by k (about the origin (0, 0))
\* multiplies the estimated area by k * k.
C13_AreaScalesQuadratically ==
    CropOk =>
        \A k \in 1..MaxScale :
            LET a == http.response.data.metadata.totalAreaM2
                b == EstimatedArea(Scaled(k, http.polygon))
            IN /\ b.shoelace = k * k * a.shoelace
               /\ b.coef = a.coef

\* the Delhi polygon was estimated; its area is not zero, so doubling the
\* coordinates changes it
C13_Witness ==
    /\ CropOk
    /\ http.polygon = DelhiPolygon
    /\ EstimatedArea(Scaled(MaxScale, http.polygon)).shoelace
          # http.response.data.metadata.totalAreaM2.shoelace

----------------------------------------------------------------------------
(* Properties of the GET handlers (SpecHttp) *)

\* C14: the centroid echoed for the rectangle a GET builds around an
\* in-bounds point is the mean of the listed vertices and equals that point.
C14_CentroidIsThePoint ==
    (GetCropOk \/ GetNdviOk) =>
        LET loc == http.response.data.location
        IN /\ loc.latitude = centerLat(http.polygon)
           /\ loc.longitude = centerLng(http.polygon)
           /\ loc.latitude.n = http.query.latitude.value * loc.latitude.d
           /\ loc.longitude.n = http.query.longitude.value * loc.longitude.d

\* 0.01 square degrees in square meters: 0.01 * 111320 * 111320
PointPolygonAreaM2 == [m |-> 1, e |-> -2, k |-> 2]

AreaValue(a) == DecMul(Dec(a.shoelace, 0), a.coef)

\* C15: the shoelace area computed for the rectangle a GET builds around an
\* in-bounds point is 0.01 * 111320^2 square meters, whatever the point.
C15_PointPolygonArea ==
    /\ (GetHandled /\ http.response.passed) =>
          AreaValue(totalArea(GeoCoordinates(http.polygon))) = PointPolygonAreaM2
    /\ GetCropOk =>
          AreaValue(http.response.data.metadata.totalAreaM2) = PointPolygonAreaM2

\* crop data was estimated for the north-east corner of the box and for a
\* point inside it
C15_Witness ==
    /\ GetCropOk
    /\ http.query \in { [latitude |-> Num(Deg(35, 50)), longitude |-> Num(Deg(97, 50))],
                        [latitude |-> Num(Deg(28, 65)), longitude |-> Num(Deg(77, 25))] }
    /\ ~AreaIsZero(http.response.data.metadata.totalAreaM2)

\* C16: every polygon an endpoint passes to an estimator has every point with
\* latitude in [6.5, 35.5] and longitude in [68.0, 97.5].
C16_EstimatedPolygonInBox ==
    (http.handler # "none" /\ http.response.passed) =>
        \A i \in 1..Len(http.polygon) :
            /\ http.polygon[i][1] >= Deg(6, 50) /\ http.polygon[i][1] <= Deg(35, 50)
            /\ http.polygon[i][2] >= Deg(68, 0) /\ http.polygon[i][2] <= Deg(97, 50)

----------------------------------------------------------------------------
(* Properties of the NDVI estimate (SpecHttp) *)

NdviEstimated == NdviOk \/ GetNdviOk

DecLt(x, y) == ~DecLeq(y, x)

\* the seasonal offset by calendar month 1..12 of the end date
SeasonalOffset(calendarMonth) ==
    CASE calendarMonth \in 7..10  -> Dec(15, -2)
      [] calendarMonth \in 11..12 -> Dec(10, -2)
      [] calendarMonth \in 4..6   -> Dec(-10, -2)
      [] calendarMonth \in 1..3   -> Dec(0, 0)

\* C17: the NDVI mean is the region's base mean plus the seasonal offset of
\* the end date's calendar month, clamped to [-1, 1], and so lies in [-1, 1].
C17_SeasonalMean ==
    NdviEstimated =>
        LET mean == http.response.data.ndvi.mean
            base == regionalNDVIPatterns[http.response.data.region].mean
            sum == DecAdd(base, SeasonalOffset(http.dates.month + 1))
        IN /\ http.response.data.region \in Regions
           /\ mean = (IF DecLt(sum, Dec(-1, 0)) THEN Dec(-1, 0)
                      ELSE IF DecLt(Dec(1, 0), sum) THEN Dec(1, 0) ELSE sum)
           /\ DecLeq(Dec(-1, 0), mean) /\ DecLeq(mean, Dec(1, 0))

\* an estimate for the east in July: 0.58 + 0.15
C17_Witness ==
    /\ NdviOk
    /\ http.response.data.region = "east"
    /\ http.dates.month = 6
    /\ http.response.data.ndvi.mean = Dec(73, -2)

Buckets == { "excellent", "good", "moderate", "poor", "very_poor" }

\* the documented interval of a status bucket contains mean
InBucket(bucket, mean) ==
    CASE bucket = "excellent" -> DecLeq(Dec(6, -1), mean)
      [] bucket = "good"      -> DecLeq(Dec(4, -1), mean) /\ DecLt(mean, Dec(6, -1))
      [] bucket = "moderate"  -> DecLeq(Dec(2, -1), mean) /\ DecLt(mean, Dec(4, -1))
      [] bucket = "poor"      -> DecLeq(Dec(0, 0), mean) /\ DecLt(mean, Dec(2, -1))
      [] bucket = "very_poor" -> DecLt(mean, Dec(0, 0))

\* means in thousandths: the ends of the range, each breakpoint and its two
\* neighbours
BreakpointMeans ==
    { Dec(t, -3) : t \in {-1000, -1, 0, 1, 199, 200, 201, 399, 400, 401,
                          599, 600, 601, 1000} }

\* C18: the status is the one bucket whose interval contains the mean, the
\* breakpoints 0.6, 0.4, 0.2, 0.0 belonging to the bucket above them.
C18_StatusByBreakpoints ==
    /\ NdviEstimated =>
          { b \in Buckets : InBucket(b, http.response.data.ndvi.mean) }
              = { http.response.data.vegetationHealth.status }
    /\ \A mean \in BreakpointMeans :
          { b \in Buckets : InBucket(b, mean) } = { vegetationHealth(mean).status }

\* an estimate whose mean is exactly 0.6 (the north in July) is excellent
C18_Witness ==
    /\ NdviOk
    /\ http.response.data.ndvi.mean = Dec(6, -1)
    /\ http.response.data.vegetationHealth.status = "excellent"

\* C19: the vegetation health percentage of an NDVI estimate lies in 0..100.
C19_PercentageInRange ==
    NdviEstimated =>
        /\ DecLeq(Dec(0, 0), http.response.data.vegetationHealth.percentage)
        /\ DecLeq(http.response.data.vegetationHealth.percentage, Dec(100, 0))

----------------------------------------------------------------------------
(* Properties of the validation errors (SpecHttp) *)

\* the indices of the points outside latitude [6.5, 35.5] / longitude
\* [68.0, 97.5]
OutsideIndices(points) ==
    { i \in 1..Len(points) :
          \/ points[i][1] < Deg(6, 50) \/ points[i][1] > Deg(35, 50)
          \/ points[i][2] < Deg(68, 0) \/ points[i][2] > Deg(97, 50) }

\* polygons of 3 points that fail for a point outside the box
OutOfBoundsPolygons ==
    { pts \in [1..3 -> FreePoints] : OutsideIndices(pts) # {} }

\* the error a POST answers for a body whose polygon is the array `points`
\* when validation fails
ValidationErrorFor(points) ==
    PostHandler([parsed |-> TRUE, polygon |-> [type |-> "array", points |-> points]],
                Err(<<>>, authClient), authClient).error

OutOfBoundsFailure ==
    /\ Handled /\ http.response.status = 400
    /\ http.body.polygon.type = "array"
    /\ Len(http.body.polygon.points) >= 3

InsufficientPointsFailure ==
    /\ Handled /\ http.response.status = 400
    /\ http.body.polygon.type # "array" \/ Len(http.body.polygon.points) < 3

\* C20 as stated: a validation error names the constraint that failed, and
\* for a point outside the box it identifies the point: polygons whose
\* out-of-bounds points differ get different errors.
C20_ErrorNamesConstraintAndPoint ==
    /\ InsufficientPointsFailure => http.response.error = NeedPolygonMsg
    /\ OutOfBoundsFailure =>
          /\ http.response.error # NeedPolygonMsg
          /\ \A other \in OutOfBoundsPolygons :
                OutsideIndices(other) # OutsideIndices(http.body.polygon.points)
                    => ValidationErrorFor(other) # http.response.error

\* C20 amended: a validation error names the constraint that failed by one
\* of two fixed messages, and is the same whichever point is outside the box.
C20_ErrorNamesConstraint ==
    /\ InsufficientPointsFailure => http.response.error = NeedPolygonMsg
    /\ OutOfBoundsFailure =>
          /\ http.response.error = OutsideIndiaMsg
          /\ http.response.error # NeedPolygonMsg
          /\ OutsideIndices(http.body.polygon.points) # {}
          /\ \A other \in OutOfBoundsPolygons :
                ValidationErrorFor(other) = http.response.error

\* a polygon was refused for its third point only, while other polygons fail
\* for other points
C20_Witness ==
    /\ OutOfBoundsFailure
    /\ OutsideIndices(http.body.polygon.points) = {3}
    /\ \E other \in OutOfBoundsPolygons : OutsideIndices(other) = {1}

----------------------------------------------------------------------------
(* Properties of the tools getCropData and getNDVI (SpecTools) *)

EndpointOf(tool) ==
    IF tool = "getCropData" THEN "GET /api/crop-data" ELSE "POST /api/ndvi"

\* the input lacks what fetch_data requires: a coordinate, or a polygon of at
\* least 3 points
ToolInputMissing(tool, input) ==
    IF tool = "getCropData"
    THEN ~input.latitude.defined \/ ~input.longitude.defined
    ELSE input.polygon.type # "array" \/ Len(input.polygon.points) < 3

\* what the input carries lies within latitude [6.5, 35.5], longitude [68, 97.5]
ToolInputInBounds(tool, input) ==
    IF tool = "getCropData"
    THEN ~OutsideIndia(input.latitude.value, input.longitude.value)
    ELSE allInIndia(input.polygon.points)

ToolReturned == toolCall.tool # "none"

\* C21: show_map returns only the instruction message and issues no HTTP
\* request; fetch_data without its coordinates or polygon returns an error
\* result and issues no HTTP request; a request is issued only for fetch_data
\* with in-bounds coordinates or polygon, and then to the tool's endpoint.
C21_OnlyInBoundsFetchProxies ==
    ToolReturned =>
        /\ toolCall.input.action = "show_map" =>
              /\ toolCall.result =
                    [NoToolResult EXCEPT
                        !.kind = "returned", !.action = "show_map",
                        !.message = IF toolCall.tool = "getCropData"
                                    THEN ShowMapCropMsg ELSE ShowMapNdviMsg]
              /\ toolCall.requests = 0 /\ http.handler = "none"
        /\ (/\ toolCall.input.action = "fetch_data"
            /\ ToolInputMissing(toolCall.tool, toolCall.input)) =>
              /\ toolCall.result.kind = "returned"
              /\ toolCall.result.error # <<>> /\ toolCall.result.data = <<>>
              /\ toolCall.requests = 0 /\ http.handler = "none"
        /\ toolCall.requests # 0 =>
              /\ toolCall.requests = 1
              /\ toolCall.input.action = "fetch_data"
              /\ ~ToolInputMissing(toolCall.tool, toolCall.input)
              /\ ToolInputInBounds(toolCall.tool, toolCall.input)
        /\ http.handler # "none" => http.handler = EndpointOf(toolCall.tool)

\* getCropData proxied a point on the southern edge of the box after getNDVI
\* had shown its map
C21_Witness ==
    /\ toolCall.tool = "getCropData" /\ toolCall.requests = 1
    /\ toolCall.input.latitude = Defined(Deg(6, 50))
    /\ http.handler = "GET /api/crop-data" /\ http.response.status = 200
    /\ "getNDVI" \in shown

\* the result carries exactly one of an instruction message, an error and data
ToolResultShaped(result) ==
    /\ result.kind = "returned"
    /\ \/ result.message # <<>> /\ result.error = <<>> /\ result.action = "show_map"
       \/ result.message = <<>> /\ result.error # <<>> /\ result.action = ""
       \/ result.message = <<>> /\ result.error = <<>> /\ result.action = "fetch_data"

\* C22: a handler always answers 200, or 400 or 500 with an error in the
\* body, and a tool always returns a result object (message, data or error)
\* and never throws, whatever the fetch, the JSON parsing or the estimator does.
C22_FailuresAreReturned ==
    /\ http.handler # "none" =>
          /\ http.response.status \in {200, 400, 500}
          /\ http.response.status = 200 <=> http.response.error = <<>>
    /\ ToolReturned =>
          /\ ToolResultShaped(toolCall.result)
          /\ toolCall.net # "ok" => toolCall.result.error # <<>>
          /\ (http.handler # "none" /\ http.response.status # 200)
                => toolCall.result.error # <<>>

\* the endpoint answered 500 for missing credentials with a body that is not
\* JSON, and getCropData returned an error
C22_Witness ==
    /\ toolCall.tool = "getCropData" /\ toolCall.net = "bad_json"
    /\ http.handler = "GET /api/crop-data" /\ http.response.status = 500
    /\ toolCall.result = ToolError(<<"Failed to fetch crop data">>)

----------------------------------------------------------------------------
(* Properties of the rows getMandiPrice returns (SpecSql) *)

\* executeSql returned n rows to call p
ReturnedRows(p, n) ==
    /\ Done(p) /\ calls[p].exec.kind = "return" /\ Len(calls[p].exec.rows) = n

Min(a, b) == IF a < b THEN a ELSE b

\* C23: when the query returns n >= 1 rows, the tool returns success = true
\* with exactly the first min(n, 10) rows, in the order the store returned them.
C23_FirstTenRowsInOrder ==
    \A p \in Procs : \A n \in RowCounts \ {0} :
        ReturnedRows(p, n) =>
            /\ calls[p].result.kind = "returned"
            /\ calls[p].result.success
            /\ Len(calls[p].result.data) = Min(n, 10)
            /\ \A i \in 1..Min(n, 10) :
                  calls[p].result.data[i] = calls[p].exec.rows[i]

\* one call got 11 rows and returned 10, another got 1 row and returned it
C23_Witness ==
    \E p, q \in Procs :
        /\ ReturnedRows(p, 11) /\ Len(calls[p].result.data) = 10
        /\ ReturnedRows(q, 1) /\ calls[q].result.data = <<1>>

\* C24: when an accepted query returns zero rows, the tool reports
\* success = false with the empty-result message and no data.
C24_ZeroRowsReported ==
    \A p \in Procs :
        ReturnedRows(p, 0) =>
            /\ ~RejectsQuery(calls[p].query)
            /\ calls[p].result.kind = "returned"
            /\ ~calls[p].result.success
            /\ calls[p].result.message = NoResultsMsg
            /\ calls[p].result.data = <<>>
            /\ calls[p].result.error = <<>>

\* an accepted query returned zero rows
C24_Witness ==
    \E p \in Procs : ReturnedRows(p, 0) /\ calls[p].result.message = NoResultsMsg

----------------------------------------------------------------------------
(* Properties of the state shared between requests (SpecHttp) *)

RequestArrives == http.handler = "none" /\ http'.handler # "none"
ResponseDelivered == http.handler # "none" /\ http'.handler = "none"

\* C25 as stated: no invocation writes state that a later invocation reads,
\* and nothing outlives the response: between requests no client is held, and
\* no request finds one.
C25_NothingOutlivesResponse ==
    /\ http.handler = "none" => ~authClient
    /\ http.handler # "none" => ~http.cached

\* C25 amended: the module-level auth client is the one thing invocations
\* share. It is created only by a request that reaches authentication with the
\* credentials set, is never reset, outlives the response and is found by every
\* later request; everything else of a request is gone once it is answered.
C25_OnlyAuthClientOutlivesResponse ==
    [][ /\ authClient => authClient'
        /\ (~authClient /\ authClient') =>
              /\ RequestArrives
              /\ http'.response.passed
              /\ http'.response.status # 400
              /\ ~CredentialsMissing(env)
        /\ RequestArrives => http'.cached = authClient
        /\ ResponseDelivered => http' = NoRequest /\ authClient' = authClient
      ]_vars

\* a request found the client an earlier request had created, and was served
C25_Witness ==
    /\ http.handler # "none" /\ http.cached
    /\ http.response.status = 200

----------------------------------------------------------------------------
(* Properties of the order of tool actions (SpecTools) *)

\* the request of a fetch_data action was issued to the tool's endpoint
ToolServed == ToolReturned /\ toolCall.requests = 1

\* C26 as stated: a fetch_data action is served only if a show_map action of
\* the same tool was issued earlier.
C26_FetchOnlyAfterShowMap == ToolServed => toolCall.tool \in shown

\* C26 amended: the tools keep nothing between actions; a fetch_data action is
\* served exactly when its own input is present and in bounds, whether or not
\* a show_map action of the same tool was issued earlier.
C26_FetchServedOnItsInput ==
    ToolReturned =>
        (ToolServed <=>
            /\ toolCall.input.action = "fetch_data"
            /\ ~ToolInputMissing(toolCall.tool, toolCall.input)
            /\ ToolInputInBounds(toolCall.tool, toolCall.input))

\* getNDVI served a polygon on the edge of the box although no show_map action
\* had been issued to either tool
C26_Witness ==
    /\ ToolServed /\ toolCall.tool = "getNDVI" /\ shown = {}
    /\ \E i \in 1..Len(toolCall.input.polygon.points) :
          toolCall.input.polygon.points[i] = <<Deg(35, 50), Deg(97, 50)>>
    /\ http.handler = "POST /api/ndvi" /\ http.response.status = 200

----------------------------------------------------------------------------
(* Properties of the order of validation and estimation (SpecHttp) *)

\* the request carries a polygon or a point that validation refuses
InvalidInput ==
    \/ Handled /\ http.body.parsed /\ InvalidPolygon(http.body.polygon)
    \/ GetHandled /\ ~QueryIsValid(http.query)

\* C27: validation precedes any use of the GEE client: a request answered
\* with 400 has reached neither the credential check, nor authentication, nor
\* the estimate, and a request with invalid input is answered with 400 also
\* when the GEE credentials are missing.
C27_ValidationPrecedesGee ==
    /\ (http.handler # "none" /\ http.response.status = 400) =>
          /\ InvalidInput
          /\ ~http.response.passed
          /\ http.polygon = <<>>
          /\ authClient = http.cached
    /\ InvalidInput =>
          /\ http.response.status = 400
          /\ http.response.error \in {NeedPolygonMsg, OutsideIndiaMsg,
                                      NeedLatLngMsg, OutsideIndiaPointMsg}

\* a GET for a point north of the box, with the GEE credentials missing, was
\* answered with 400
C27_Witness ==
    /\ GetHandled /\ ~isNaN(http.query.latitude)
    /\ http.query.latitude.value = Deg(35, 51)
    /\ CredentialsMissing(env)
    /\ http.response.status = 400

----------------------------------------------------------------------------
(* Properties of the NDVI statistics (SpecHttp) *)

DecEq(x, y) == DecLeq(x, y) /\ DecLeq(y, x)

\* (max - min) / 4 of the values returned
QuarterRange(ndvi) == DecMul(DecSub(ndvi.max, ndvi.min), Dec(25, -2))

OrderedNdvi(ndvi) == DecLeq(ndvi.min, ndvi.mean) /\ DecLeq(ndvi.mean, ndvi.max)

\* C28 as stated: in every region and month the values returned satisfy
\* min <= mean <= max, and stdDev = (max - min) / 4 >= 0.
C28_OrderedAndExactQuarter ==
    NdviEstimated =>
        LET ndvi == http.response.data.ndvi
        IN /\ OrderedNdvi(ndvi)
           /\ DecEq(ndvi.stdDev, QuarterRange(ndvi))
           /\ DecLeq(Dec(0, 0), ndvi.stdDev)

\* C28 amended: in every region and month the values returned satisfy
\* min <= mean <= max, and stdDev is (max - min) / 4 rounded to three
\* decimals, so within 0.0005 of it, and >= 0.
C28_OrderedAndRoundedQuarter ==
    NdviEstimated =>
        LET ndvi == http.response.data.ndvi
        IN /\ http.response.data.region \in Regions
           /\ OrderedNdvi(ndvi)
           /\ DecLeq(DecSub(QuarterRange(ndvi), Dec(5, -4)), ndvi.stdDev)
           /\ DecLeq(ndvi.stdDev, DecAdd(QuarterRange(ndvi), Dec(5, -4)))
           /\ ndvi.stdDev = RoundTo(ndvi.stdDev, 3)
           /\ DecLeq(Dec(0, 0), ndvi.stdDev)

\* an estimate for the west in May, where the offset lowers the mean by 0.10
\* and min and max by 0.05, and (max - min) / 4 = 0.0875 has four decimals
C28_Witness ==
    /\ NdviEstimated /\ http.response.data.region = "west"
    /\ http.dates.month = 4
    /\ DecEq(http.response.data.ndvi.mean, Dec(28, -2))
    /\ DecEq(http.response.data.ndvi.min, Dec(15, -2))
    /\ DecEq(QuarterRange(http.response.data.ndvi), Dec(875, -4))

----------------------------------------------------------------------------
(* Properties of the Earth Engine initialization (SpecEE) *)

\* C29: on a cold instance with valid credentials, whatever the interleaving
\* of concurrent getNdvi calls, the authenticate-and-initialize sequence of
\* ensureEEInitialized is executed at most once.
C29_InitializedAtMostOnce ==
    ~EECredentialsMissing(env) => eeRuns <= 1

----------------------------------------------------------------------------
(* Properties of the CSV import (SpecSetup) *)

\* C30: when COMMIT runs, the insert started for every record has completed
\* and rowCount is the number of records; no insert is pending once COMMIT,
\* insertStmt.finalize() or db.close() has run.
C30_CommitAfterAllInserts ==
    setup.commit.done =>
        /\ setup.commit.pending = {}
        /\ setup.commit.rowCount = setup.records
        /\ PendingInserts(setup) = {}

====
